---- MODULE Spec2Model ----
(***************************************************************************)
(* A model of the B-Tree engine of rqlite: src/src/tree/btree.rs (BTree)   *)
(* and src/src/tree/cell.rs (BTreeCellFactory).  The pager, the page       *)
(* layer and the per-page node operations (crate::storage::Pager,          *)
(* crate::page, crate::tree::node::BTreeNode) are modelled from the        *)
(* specification text (sections 3, 4.4 and 4.6).                           *)
(*                                                                         *)
(* Payload bytes are written as sequences of segments [src, lo, hi]: the   *)
(* bytes lo..hi-1 of the serialized record that was inserted under key     *)
(* src.  Slicing, chunking and concatenation act on these segments byte    *)
(* position by byte position, so a lost, duplicated or reordered byte      *)
(* shows as a payload different from the inserted one.                     *)
(***************************************************************************)
EXTENDS Integers, Sequences, FiniteSets, TLC

VARIABLES
    pages,       \* the pager's pages, page n at index n (Len(pages) = page_count)
    root_page,   \* BTree.root_page
    tree_type,   \* BTree.tree_type
    inserted,    \* history: key -> payload size of the record a successful insert stored and no delete removed, 0 otherwise
    only_inserts,\* history: every call that changed a page so far was a successful insert
    last         \* the last call and what it returned

vars == <<pages, root_page, tree_type, inserted, only_inserts, last>>

----------------------------------------------------------------------------
(* Bounds of the model *)

MaxKey == 4
MaxCells == 2
MaxPages == 8

Keys == 1..MaxKey

----------------------------------------------------------------------------
(* Configuration of the handle (BTree::create parameters) *)

page_size == 4096
reserved_space == 0
max_payload_fraction == 255
min_payload_fraction == 32

Min(a, b) == IF a <= b THEN a ELSE b

----------------------------------------------------------------------------
(* Byte strings as segments *)

SegLen(s) == s.hi - s.lo

RECURSIVE BytesLen(_)
BytesLen(b) == IF b = <<>> THEN 0 ELSE SegLen(Head(b)) + BytesLen(Tail(b))

\* Vec::extend_from_slice: b after a; contiguous bytes of one record fuse
Concat(a, b) ==
    IF a = <<>> THEN b
    ELSE IF b = <<>> THEN a
    ELSE LET x == a[Len(a)]
             y == b[1]
         IN IF x.src = y.src /\ x.hi = y.lo
            THEN SubSeq(a, 1, Len(a) - 1)
                 \o <<[src |-> x.src, lo |-> x.lo, hi |-> y.hi]>>
                 \o Tail(b)
            ELSE a \o b

\* payload[i..j]: the bytes at positions i .. j-1
RECURSIVE Slice(_, _, _)
Slice(b, i, j) ==
    IF b = <<>> \/ j <= i THEN <<>>
    ELSE LET s == Head(b)
             n == SegLen(s)
         IN IF i >= n THEN Slice(Tail(b), i - n, j - n)
            ELSE Concat(<<[src |-> s.src, lo |-> s.lo + i, hi |-> s.lo + Min(j, n)]>>,
                        Slice(Tail(b), 0, j - n))

\* the serialized record inserted under key k, P bytes long
Payload(k, P) == IF P = 0 THEN <<>> ELSE <<[src |-> k, lo |-> 0, hi |-> P]>>

----------------------------------------------------------------------------
(* Pages and the pager *)

NoPage == 0

BTreePage(type, cells, right_most) ==
    [type |-> type, cells |-> cells, right_most_page |-> right_most,
     next_page |-> NoPage, data |-> <<>>]

OverflowPage(next, data) ==
    [type |-> "Overflow", cells |-> <<>>, right_most_page |-> NoPage,
     next_page |-> next, data |-> data]

FreePage(next) ==
    [type |-> "Free", cells |-> <<>>, right_most_page |-> NoPage,
     next_page |-> next, data |-> <<>>]

\* page 1; max_pages is the number of pages that the file can grow to
HeaderOf(max_pages) ==
    [type |-> "Header", cells |-> <<>>, right_most_page |-> NoPage,
     next_page |-> NoPage, data |-> <<>>, max_pages |-> max_pages]

HeaderPage == HeaderOf(MaxPages)

BTreeTypes == {"TableLeaf", "TableInterior", "IndexLeaf", "IndexInterior"}
is_leaf(type) == type \in {"TableLeaf", "IndexLeaf"}

\* Pager::get_page(n, None): fails for a page number that is not allocated
get_page_ok(pg, n) == n \in 1..Len(pg)

\* Pager::create_overflow_page / create_free_page / create_btree_page: the
\* file grows by one page and the new page gets the next page number; the
\* freelist is never popped.  Extending a file that has the number of pages
\* its header page gives as the most fails (IoError).
alloc_page(pg, page) ==
    IF Len(pg) >= pg[1].max_pages
    THEN [ok |-> FALSE, pages |-> pg, number |-> NoPage]
    ELSE [ok |-> TRUE, pages |-> Append(pg, page), number |-> Len(pg) + 1]

\* BTree::get_page_type
get_page_type(pg, n) ==
    IF get_page_ok(pg, n) /\ pg[n].type \in BTreeTypes
    THEN [ok |-> TRUE, type |-> pg[n].type]
    ELSE [ok |-> FALSE, type |-> "none"]

----------------------------------------------------------------------------
(* BTreeCellFactory (cell.rs) *)

\* max_local_payload without the cap of lines 237-238
max_local_payload_uncapped(usable_size, fraction) ==
    ((usable_size - 12) * fraction) \div 255

\* BTreeCellFactory::max_local_payload
factory_max_local_payload(usable_size, fraction) ==
    Min(((usable_size - 12) * fraction) \div 255, usable_size - 35)

\* BTreeCellFactory::min_local_payload
factory_min_local_payload(usable_size, fraction) ==
    ((usable_size - 12) * fraction) \div 255

usable_page_size == page_size - reserved_space
max_local_payload == factory_max_local_payload(usable_page_size, max_payload_fraction)
min_local_payload == factory_min_local_payload(usable_page_size, min_payload_fraction)

\* local_payload_size without the test of line 46 and with m bytes kept in
\* the cell whenever the payload is longer than m
local_payload_size_always_split(payload_size, max_local, min_local, usable_size) ==
    LET m == Min(min_local, (usable_size - 35) \div 4)
    IN IF payload_size <= m THEN payload_size ELSE m

\* the local_payload_size computed by the three payload-bearing constructors
local_payload_size(payload_size, max_local, min_local, usable_size) ==
    IF payload_size <= max_local THEN payload_size
    ELSE LET m == Min(min_local, (usable_size - 35) \div 4)
         IN IF payload_size <= m THEN payload_size
            ELSE m + ((payload_size - m) % (usable_size - 4))

Cell(left, key, size, payload) ==
    [left_child_page |-> left, key |-> key, payload_size |-> size,
     payload |-> payload, overflow_page |-> NoPage]

\* the constructors with the length of the local part in payload_size (line 83)
split_payload_local_size(left, key, payload, max_local, min_local, usable_size) ==
    LET P == BytesLen(payload)
        L == local_payload_size(P, max_local, min_local, usable_size)
    IN [cell |-> Cell(left, key, L, Slice(payload, 0, L)),
        overflow |-> IF L < P THEN Slice(payload, L, P) ELSE <<>>]

\* the (cell, overflow tail) pair of a constructor; overflow = <<>> stands for Option::None
split_payload(left, key, payload, max_local, min_local, usable_size) ==
    LET P == BytesLen(payload)
        L == local_payload_size(P, max_local, min_local, usable_size)
    IN [cell |-> Cell(left, key, P, Slice(payload, 0, L)),
        overflow |-> IF L < P THEN Slice(payload, L, P) ELSE <<>>]

create_table_leaf_cell(rowid, payload, max_local, min_local, usable_size) ==
    split_payload(NoPage, rowid, payload, max_local, min_local, usable_size)

create_table_interior_cell(left_child_page, key) ==
    Cell(left_child_page, key, 0, <<>>)

create_index_leaf_cell(payload, max_local, min_local, usable_size) ==
    split_payload(NoPage, 0, payload, max_local, min_local, usable_size)

create_index_interior_cell(left_child_page, payload, max_local, min_local, usable_size) ==
    split_payload(left_child_page, 0, payload, max_local, min_local, usable_size)

----------------------------------------------------------------------------
(* BTreeNode: the per-page operations (specification section 4.6) *)

\* extract_key_from_payload: the KeyValue of the leading column; decoding an
\* empty payload fails (no header varint to read)
extract_key_ok(payload) == payload # <<>> /\ payload[1].lo = 0
extract_key(payload) == payload[1].src

\* the sort key of a cell of a page of the given type
cell_key_ok(type, cell) ==
    type \in {"TableLeaf", "TableInterior"} \/ extract_key_ok(cell.payload)
cell_key(type, cell) ==
    IF type \in {"TableLeaf", "TableInterior"} THEN cell.key ELSE extract_key(cell.payload)

\* BTreeNode::open: the page must exist and have the expected type
node_open_ok(pg, n, type) == get_page_ok(pg, n) /\ pg[n].type = type

\* 0-based index of the first cell whose key is >= key, Len(cells) if none
lower_bound(type, cells, key) ==
    Cardinality({i \in 1..Len(cells) :
        \A j \in 1..i : cell_key(type, cells[j]) < key})

\* BTreeNode::find_table_key on an interior page: the child to descend to
find_table_key(page, rowid) ==
    LET idx == lower_bound(page.type, page.cells, rowid)
    IN IF idx >= Len(page.cells) THEN page.right_most_page
       ELSE page.cells[idx + 1].left_child_page

\* BTreeNode::find_table_rowid on a leaf: (found, idx)
find_table_rowid(page, rowid) ==
    LET idx == lower_bound(page.type, page.cells, rowid)
    IN [found |-> idx < Len(page.cells) /\ page.cells[idx + 1].key = rowid,
        idx |-> idx]

\* BTreeNode::find_index_key: (found, idx), an error when a key cannot be decoded
node_find_index_key(page, key) ==
    IF \E i \in 1..Len(page.cells) : ~cell_key_ok(page.type, page.cells[i])
    THEN [ok |-> FALSE, found |-> FALSE, idx |-> 0]
    ELSE LET idx == lower_bound(page.type, page.cells, key)
         IN [ok |-> TRUE,
             found |-> idx < Len(page.cells)
                       /\ cell_key(page.type, page.cells[idx + 1]) = key,
             idx |-> idx]

InsertAt(cells, idx, cell) ==
    SubSeq(cells, 1, idx) \o <<cell>> \o SubSeq(cells, idx + 1, Len(cells))

RemoveAt(cells, idx) ==
    SubSeq(cells, 1, idx) \o SubSeq(cells, idx + 2, Len(cells))

\* BTreeNode::insert_cell: the cell is added to the page (used to seed a new root)
insert_cell(pg, n, cell) ==
    [pg EXCEPT ![n].cells = Append(@, cell)]

\* BTreeNode::set_right_most_child
set_right_most_child(pg, n, child) ==
    [pg EXCEPT ![n].right_most_page = child]

\* the split index: the left page keeps cells [0..s), the new page gets [s..K)
split_index(K) == (K + 1) \div 2

\* BTreeNode::insert_cell_ordered: (split, median_key, new_node) and the pages after it
insert_cell_ordered(pg, n, cell) ==
    LET page == pg[n]
        fail == [ok |-> FALSE, pages |-> pg, split |-> FALSE,
                 median_key |-> 0, new_node |-> NoPage]
        \* the page is full: the cells from s on move to a new right sibling
        split_node(all, s, sibling) ==
            IF ~sibling.ok THEN fail
            ELSE [ok |-> TRUE,
                  pages |-> [sibling.pages EXCEPT ![n].cells = SubSeq(all, 1, s)],
                  split |-> TRUE,
                  median_key |-> cell_key(page.type, all[s]),
                  new_node |-> sibling.number]
        place(all, s) ==
            IF Len(page.cells) < MaxCells
            THEN [ok |-> TRUE, pages |-> [pg EXCEPT ![n].cells = all],
                  split |-> FALSE, median_key |-> 0, new_node |-> NoPage]
            ELSE split_node(all, s,
                            alloc_page(pg, BTreePage(page.type, SubSeq(all, s + 1, Len(all)),
                                                     NoPage)))
    IN IF \/ ~cell_key_ok(page.type, cell)
          \/ \E i \in 1..Len(page.cells) : ~cell_key_ok(page.type, page.cells[i])
       THEN fail
       ELSE place(InsertAt(page.cells,
                           lower_bound(page.type, page.cells, cell_key(page.type, cell)),
                           cell),
                  split_index(Len(page.cells) + 1))

----------------------------------------------------------------------------
(* BTree (btree.rs): overflow chains *)

\* a chain page filled to page_size bytes, the next pointer not counted
data_per_whole_page == page_size

data_per_page == page_size - 4

\* data.chunks(data_per_page): the number of chunks and the i-th chunk (0-based)
chunk_count(data) == (BytesLen(data) + data_per_page - 1) \div data_per_page
chunk(data, i) == Slice(data, i * data_per_page, (i + 1) * data_per_page)

\* the loop `for i in (0..chunk_count - 1).rev()` of create_overflow_chain
RECURSIVE chain_rest(_, _, _, _)
chain_rest(pg, data, i, next_page) ==
    LET linked(page) ==
            IF ~page.ok THEN [ok |-> FALSE, pages |-> page.pages, head |-> NoPage]
            ELSE chain_rest(page.pages, data, i - 1, page.number)
    IN IF i < 0 THEN [ok |-> TRUE, pages |-> pg, head |-> next_page]
       ELSE linked(alloc_page(pg, OverflowPage(next_page, chunk(data, i))))

\* BTree::create_overflow_chain
create_overflow_chain(pg, data) ==
    LET rest(count, last_page) ==
            IF ~last_page.ok THEN [ok |-> FALSE, pages |-> pg, head |-> NoPage]
            ELSE chain_rest(last_page.pages, data, count - 2, last_page.number)
        chain(count) ==
            IF count = 0 THEN [ok |-> FALSE, pages |-> pg, head |-> NoPage]
            ELSE rest(count, alloc_page(pg, OverflowPage(NoPage, chunk(data, count - 1))))
    IN chain(chunk_count(data))

\* BTree::read_overflow_chain; a walk that never reaches 0 is reported as "loop"
RECURSIVE read_chain(_, _, _, _)
read_chain(pg, current_page, result, fuel) ==
    IF current_page = NoPage THEN [status |-> "ok", data |-> result]
    ELSE IF ~get_page_ok(pg, current_page) \/ pg[current_page].type # "Overflow"
    THEN [status |-> "err", data |-> <<>>]
    ELSE IF fuel = 0 THEN [status |-> "loop", data |-> <<>>]
    ELSE read_chain(pg, pg[current_page].next_page,
                    Concat(result, pg[current_page].data), fuel - 1)

read_overflow_chain(pg, first_page) == read_chain(pg, first_page, <<>>, Len(pg))

\* BTree::free_overflow_chain: one create_free_page(0) per page of the chain
RECURSIVE free_chain(_, _, _)
free_chain(pg, current_page, fuel) ==
    LET freed(a) ==
            IF ~a.ok THEN [ok |-> FALSE, pages |-> pg]
            ELSE free_chain(a.pages, pg[current_page].next_page, fuel - 1)
    IN IF current_page = NoPage THEN [ok |-> TRUE, pages |-> pg]
       ELSE IF ~get_page_ok(pg, current_page) \/ pg[current_page].type # "Overflow" \/ fuel = 0
       THEN [ok |-> FALSE, pages |-> pg]
       ELSE freed(alloc_page(pg, FreePage(NoPage)))

free_overflow_chain(pg, first_page) == free_chain(pg, first_page, Len(pg))

----------------------------------------------------------------------------
(* BTree (btree.rs): lookups *)

\* the descent loop of BTree::find
RECURSIVE find_walk(_, _, _, _)
find_walk(pg, current_page, rowid, fuel) ==
    LET step(t) ==
            IF ~t.ok \/ fuel = 0 THEN [ok |-> FALSE, page |-> current_page]
            ELSE IF is_leaf(t.type) THEN [ok |-> TRUE, page |-> current_page]
            ELSE find_walk(pg, find_table_key(pg[current_page], rowid), rowid, fuel - 1)
    IN step(get_page_type(pg, current_page))

\* find that surfaces a missing rowid as an error instead of None (lines 259-262)
find_or_key_not_found(pg, root, rowid) ==
    LET err == [res |-> "err", payload |-> <<>>]
        in_leaf(leaf, f) ==
            IF ~f.found \/ leaf.type # "TableLeaf" THEN err
            ELSE [res |-> "some", payload |-> leaf.cells[f.idx + 1].payload]
        reached(w) ==
            IF ~w.ok THEN err
            ELSE in_leaf(pg[w.page], find_table_rowid(pg[w.page], rowid))
    IN reached(find_walk(pg, root, rowid, Len(pg)))

\* BTree::find after its tree-type check (lines 236-285)
find_in_table(pg, root, rowid) ==
    LET err == [res |-> "err", payload |-> <<>>]
        joined(leaf_cell, rest) ==
            IF rest.status # "ok" THEN err
            ELSE [res |-> "some", payload |-> Concat(leaf_cell.payload, rest.data)]
        record(leaf_cell) ==
            IF leaf_cell.overflow_page = NoPage
            THEN [res |-> "some", payload |-> leaf_cell.payload]
            ELSE joined(leaf_cell, read_overflow_chain(pg, leaf_cell.overflow_page))
        in_leaf(leaf, f) ==
            IF ~f.found THEN [res |-> "none", payload |-> <<>>]
            ELSE IF leaf.type # "TableLeaf" THEN err
            ELSE record(leaf.cells[f.idx + 1])
        reached(w) ==
            IF ~w.ok THEN err
            ELSE in_leaf(pg[w.page], find_table_rowid(pg[w.page], rowid))
    IN reached(find_walk(pg, root, rowid, Len(pg)))

\* find without the check of lines 229-234
find_any_tree(pg, root, type, rowid) == find_in_table(pg, root, rowid)

\* BTree::find: res is "err", "none" or "some" (with the record's payload bytes)
find(pg, root, type, rowid) ==
    IF type # "Table" THEN [res |-> "err", payload |-> <<>>]
    ELSE find_in_table(pg, root, rowid)

\* the child chosen in an index interior page by find_index_key and get_path_to_leaf
index_child(page, f) ==
    IF f.found THEN page.cells[f.idx + 1].left_child_page
    ELSE IF f.idx = 0 THEN page.cells[1].left_child_page
    ELSE IF f.idx >= Len(page.cells) THEN page.right_most_page
    ELSE page.cells[f.idx + 1].left_child_page

\* the descent loop of BTree::find_index_key
RECURSIVE find_index_walk(_, _, _, _)
find_index_walk(pg, current_page, key, fuel) ==
    LET down(f) ==
            IF ~f.ok \/ Len(pg[current_page].cells) = 0
            THEN [ok |-> FALSE, page |-> current_page]
            ELSE find_index_walk(pg, index_child(pg[current_page], f), key, fuel - 1)
        step(t) ==
            IF ~t.ok \/ fuel = 0 THEN [ok |-> FALSE, page |-> current_page]
            ELSE IF is_leaf(t.type) THEN [ok |-> TRUE, page |-> current_page]
            ELSE down(node_find_index_key(pg[current_page], key))
    IN step(get_page_type(pg, current_page))

\* BTree::find_index_key: (found, leaf page, idx) or an error
find_index_key(pg, root, type, key) ==
    LET err == [ok |-> FALSE, found |-> FALSE, page |-> NoPage, idx |-> 0]
        in_leaf(leaf_page, f) ==
            [ok |-> f.ok, found |-> f.ok /\ f.found, page |-> leaf_page, idx |-> f.idx]
        reached(w) ==
            IF ~w.ok THEN err
            ELSE in_leaf(w.page, node_find_index_key(pg[w.page], key))
    IN IF type # "Index" THEN err
       ELSE reached(find_index_walk(pg, root, key, Len(pg)))

----------------------------------------------------------------------------
(* BTree (btree.rs): descent with path *)

\* the descent without path.push (line 777)
find_leaf_without_path(pg, root, key) ==
    LET walked(w) == [ok |-> w.ok, page |-> w.page, leaf |-> w.page, path |-> <<>>]
    IN walked(find_walk(pg, root, key, Len(pg)))

\* BTree::find_leaf_for_insert: (leaf page, path of interior pages above it)
RECURSIVE leaf_walk(_, _, _, _, _)
leaf_walk(pg, current_page, key, path, fuel) ==
    LET step(t) ==
            IF ~t.ok \/ fuel = 0 THEN [ok |-> FALSE, leaf |-> current_page, path |-> path]
            ELSE IF is_leaf(t.type) THEN [ok |-> TRUE, leaf |-> current_page, path |-> path]
            ELSE leaf_walk(pg, find_table_key(pg[current_page], key), key,
                           Append(path, current_page), fuel - 1)
    IN step(get_page_type(pg, current_page))

find_leaf_for_insert(pg, root, key) == leaf_walk(pg, root, key, <<>>, Len(pg))

\* the loop of BTree::get_path_to_leaf
RECURSIVE path_walk(_, _, _, _, _, _)
path_walk(pg, current_page, leaf_page, key, path, fuel) ==
    LET next(child_page) ==
            IF child_page = leaf_page
            THEN [ok |-> TRUE, path |-> Append(path, current_page)]
            ELSE path_walk(pg, child_page, leaf_page, key,
                           Append(path, current_page), fuel - 1)
        down(f) ==
            IF ~f.ok \/ Len(pg[current_page].cells) = 0 THEN [ok |-> FALSE, path |-> <<>>]
            ELSE next(index_child(pg[current_page], f))
        step(t) ==
            IF ~t.ok \/ fuel = 0 \/ is_leaf(t.type) THEN [ok |-> FALSE, path |-> <<>>]
            ELSE down(node_find_index_key(pg[current_page], key))
    IN step(get_page_type(pg, current_page))

\* BTree::get_path_to_leaf
get_path_to_leaf(pg, root, leaf_page, key) ==
    IF leaf_page = root THEN [ok |-> TRUE, path |-> <<>>]
    ELSE path_walk(pg, root, leaf_page, key, <<>>, Len(pg))

----------------------------------------------------------------------------
(* BTree (btree.rs): insertion *)

interior_type(type) == IF type = "Table" THEN "TableInterior" ELSE "IndexInterior"
leaf_type(type) == IF type = "Table" THEN "TableLeaf" ELSE "IndexLeaf"

\* the cell built for the parent by propagate_split and create_new_root: for an
\* index tree its payload is the empty vector
separator_cell(type, left_page, median_key) ==
    IF type = "Table"
    THEN create_table_interior_cell(left_page, median_key)
    ELSE create_index_interior_cell(left_page, <<>>, max_local_payload,
                                    min_local_payload, usable_page_size).cell

\* create_new_root that assigns the right sibling's page number to root_page
create_new_root_at_sibling(pg, root, type, left_page, right_page, median_key) ==
    LET seeded(new_root) ==
            IF ~new_root.ok THEN [ok |-> FALSE, pages |-> pg, root |-> root]
            ELSE [ok |-> TRUE,
                  pages |-> insert_cell(new_root.pages, new_root.number,
                                        separator_cell(type, left_page, median_key)),
                  root |-> right_page]
    IN seeded(alloc_page(pg, BTreePage(interior_type(type), <<>>, right_page)))

\* BTree::create_new_root
create_new_root(pg, root, type, left_page, right_page, median_key) ==
    LET seeded(new_root) ==
            IF ~new_root.ok THEN [ok |-> FALSE, pages |-> pg, root |-> root]
            ELSE [ok |-> TRUE,
                  pages |-> insert_cell(new_root.pages, new_root.number,
                                        separator_cell(type, left_page, median_key)),
                  root |-> new_root.number]
    IN seeded(alloc_page(pg, BTreePage(interior_type(type), <<>>, right_page)))

\* propagate_split that takes the parent from the front of the path
RECURSIVE propagate_split_from_root(_, _, _, _, _, _, _)
propagate_split_from_root(pg, root, type, left_page, right_page, median_key, path) ==
    LET parent_page == path[1]
        up(r) ==
            IF ~r.ok THEN [ok |-> FALSE, pages |-> r.pages, root |-> root]
            ELSE IF r.split
            THEN propagate_split_from_root(r.pages, root, type, parent_page, r.new_node,
                                           r.median_key, Tail(path))
            ELSE [ok |-> TRUE, pages |-> r.pages, root |-> root]
    IN IF path = <<>> THEN create_new_root(pg, root, type, left_page, right_page, median_key)
       ELSE IF ~node_open_ok(pg, parent_page, interior_type(type))
       THEN [ok |-> FALSE, pages |-> pg, root |-> root]
       ELSE up(insert_cell_ordered(set_right_most_child(pg, parent_page, right_page),
                                   parent_page,
                                   separator_cell(type, left_page, median_key)))

\* BTree::propagate_split
RECURSIVE propagate_split(_, _, _, _, _, _, _)
propagate_split(pg, root, type, left_page, right_page, median_key, path) ==
    LET parent_page == path[Len(path)]
        up(r) ==
            IF ~r.ok THEN [ok |-> FALSE, pages |-> r.pages, root |-> root]
            ELSE IF r.split
            THEN propagate_split(r.pages, root, type, parent_page, r.new_node,
                                 r.median_key, SubSeq(path, 1, Len(path) - 1))
            ELSE [ok |-> TRUE, pages |-> r.pages, root |-> root]
    IN IF path = <<>> THEN create_new_root(pg, root, type, left_page, right_page, median_key)
       ELSE IF ~node_open_ok(pg, parent_page, interior_type(type))
       THEN [ok |-> FALSE, pages |-> pg, root |-> root]
       ELSE up(insert_cell_ordered(set_right_most_child(pg, parent_page, right_page),
                                   parent_page,
                                   separator_cell(type, left_page, median_key)))

\* the chain is created and the cell's overflow_page is left as the factory set it
with_overflow_unlinked(pg, c) ==
    LET linked(chain) == [ok |-> chain.ok, pages |-> chain.pages, cell |-> c.cell]
    IN IF c.overflow = <<>> THEN [ok |-> TRUE, pages |-> pg, cell |-> c.cell]
       ELSE linked(create_overflow_chain(pg, c.overflow))

\* the cell with its overflow chain allocated (insert lines 397-410, insert_index 470-483)
with_overflow(pg, c) ==
    LET linked(chain) ==
            [ok |-> chain.ok, pages |-> chain.pages,
             cell |-> [c.cell EXCEPT !.overflow_page = chain.head]]
    IN IF c.overflow = <<>> THEN [ok |-> TRUE, pages |-> pg, cell |-> c.cell]
       ELSE linked(create_overflow_chain(pg, c.overflow))

\* BTree::insert
insert(pg, root, type, rowid, payload) ==
    LET fail(p) == [ok |-> FALSE, pages |-> p, root |-> root]
        stored(f, r) ==
            IF ~r.ok THEN fail(r.pages)
            ELSE IF r.split
            THEN propagate_split(r.pages, root, type, f.leaf, r.new_node,
                                 r.median_key, f.path)
            ELSE [ok |-> TRUE, pages |-> r.pages, root |-> root]
        located(c, f) ==
            IF ~f.ok \/ ~node_open_ok(c.pages, f.leaf, "TableLeaf") THEN fail(c.pages)
            ELSE stored(f, insert_cell_ordered(c.pages, f.leaf, c.cell))
        built(c) ==
            IF ~c.ok THEN fail(c.pages)
            ELSE located(c, find_leaf_for_insert(c.pages, root, rowid))
    IN IF type # "Table" THEN fail(pg)
       ELSE built(with_overflow(pg, create_table_leaf_cell(rowid, payload, max_local_payload,
                                                           min_local_payload,
                                                           usable_page_size)))

\* BTree::insert_index: the payload is the key's bytes followed by the rowid's record
insert_index(pg, root, type, payload) ==
    LET fail(p) == [ok |-> FALSE, pages |-> p, root |-> root]
        key_value == extract_key(payload)
        with_path(f, r, p) ==
            IF ~p.ok THEN fail(r.pages)
            ELSE propagate_split(r.pages, root, type, f.page, r.new_node,
                                 r.median_key, p.path)
        stored(f, r) ==
            IF ~r.ok THEN fail(r.pages)
            ELSE IF r.split
            THEN with_path(f, r, get_path_to_leaf(r.pages, root, f.page, key_value))
            ELSE [ok |-> TRUE, pages |-> r.pages, root |-> root]
        located(c, f) ==
            IF ~f.ok \/ ~node_open_ok(c.pages, f.page, "IndexLeaf") THEN fail(c.pages)
            ELSE stored(f, insert_cell_ordered(c.pages, f.page, c.cell))
        built(c) ==
            IF ~c.ok THEN fail(c.pages)
            ELSE located(c, find_index_key(c.pages, root, type, key_value))
    IN IF type # "Index" \/ ~extract_key_ok(payload) THEN fail(pg)
       ELSE built(with_overflow(pg, create_index_leaf_cell(payload, max_local_payload,
                                                           min_local_payload,
                                                           usable_page_size)))

----------------------------------------------------------------------------
(* BTree (btree.rs): deletion and rebalancing *)

\* 0-based index of the first cell of the parent whose left child is child_page, -1 if none
child_index(cells, child_page) ==
    IF \E i \in 1..Len(cells) : cells[i].left_child_page = child_page
    THEN (CHOOSE i \in 1..Len(cells) :
              /\ cells[i].left_child_page = child_page
              /\ \A j \in 1..(i - 1) : cells[j].left_child_page # child_page) - 1
    ELSE -1

\* BTree::find_siblings: (left sibling, right sibling), NoPage for Option::None
find_siblings(parent, node_page) ==
    LET cells == parent.cells
        cell_count == Len(parent.cells)
        around(pos) ==
            IF cell_count = 0 THEN [ok |-> TRUE, left |-> NoPage, right |-> NoPage]
            ELSE IF pos = -1 THEN [ok |-> FALSE, left |-> NoPage, right |-> NoPage]
            ELSE [ok |-> TRUE,
                  left |-> IF pos > 0
                           THEN IF pos = cell_count
                                THEN cells[(cell_count - 1) + 1].left_child_page
                                ELSE cells[(pos - 1) + 1].left_child_page
                           ELSE NoPage,
                  right |-> IF pos < cell_count
                            THEN IF pos = 0
                                 THEN cells[0 + 1].left_child_page
                                 ELSE cells[pos + 1].left_child_page
                            ELSE NoPage]
    IN around(IF parent.right_most_page = node_page THEN cell_count
              ELSE child_index(cells, node_page))

\* BTree::find_separator_index: 0-based index of the separator cell, or an error
find_separator_index(parent, child_page, is_left) ==
    LET cell_count == Len(parent.cells)
        at(i) ==
            IF child_page = parent.right_most_page
            THEN [ok |-> is_left /\ cell_count > 0, idx |-> cell_count - 1]
            ELSE IF i = -1 THEN [ok |-> FALSE, idx |-> 0]
            ELSE IF is_left THEN [ok |-> TRUE, idx |-> i]
            ELSE [ok |-> i # 0, idx |-> i - 1]
    IN at(child_index(parent.cells, child_page))

\* BTree::borrow_from_sibling: Ok(borrowed) or an error, and the pages after it
borrow_from_sibling(pg, type, target_page, sibling_page, parent_page, from_left) ==
    LET fail(p) == [ok |-> FALSE, borrowed |-> FALSE, pages |-> p]
        added(r) ==
            IF ~r.ok THEN fail(r.pages)
            ELSE [ok |-> TRUE, borrowed |-> TRUE, pages |-> r.pages]
        \* the separator key of the parent is updated (table trees only), then
        \* the cell enters the target page
        moved(pg1, sibling_cell, separator) ==
            IF ~separator.ok THEN fail(pg1)
            ELSE IF type = "Index" /\ ~extract_key_ok(sibling_cell.payload) THEN fail(pg1)
            ELSE added(insert_cell_ordered(
                           IF type = "Table"
                           THEN [pg1 EXCEPT ![parent_page].cells[separator.idx + 1].key =
                                     sibling_cell.key]
                           ELSE pg1,
                           target_page, sibling_cell))
        \* the cell is removed from the sibling
        take(pg1, sibling_cell) ==
            moved(pg1, sibling_cell,
                  find_separator_index(pg1[parent_page], target_page, from_left))
    IN IF ~node_open_ok(pg, sibling_page, pg[target_page].type) THEN fail(pg)
       ELSE IF Len(pg[sibling_page].cells) <= 1
       THEN [ok |-> TRUE, borrowed |-> FALSE, pages |-> pg]
       ELSE IF ~node_open_ok(pg, parent_page, interior_type(type)) THEN fail(pg)
       ELSE take([pg EXCEPT ![sibling_page].cells =
                      IF from_left THEN SubSeq(@, 1, Len(@) - 1) ELSE Tail(@)],
                 IF from_left THEN pg[sibling_page].cells[Len(pg[sibling_page].cells)]
                 ELSE pg[sibling_page].cells[1])

\* the loop of merge_nodes that moves the cells of the right page into the left page
RECURSIVE move_cells(_, _, _, _, _)
move_cells(pg, left_page, right_page, i, right_cell_count) ==
    LET next(r) ==
            IF ~r.ok THEN [ok |-> FALSE, pages |-> r.pages]
            ELSE move_cells(r.pages, left_page, right_page, i + 1, right_cell_count)
    IN IF i >= right_cell_count THEN [ok |-> TRUE, pages |-> pg]
       ELSE IF i >= Len(pg[right_page].cells) THEN [ok |-> FALSE, pages |-> pg]
       ELSE next(insert_cell_ordered(pg, left_page, pg[right_page].cells[i + 1]))

\* BTree::merge_nodes
merge_nodes(pg, type, left_page, right_page, parent_page) ==
    LET freed(free) == [ok |-> free.ok, pages |-> free.pages]
        \* the separator leaves the parent, the right page is marked free
        unlinked(separator, moved) ==
            IF ~moved.ok THEN moved
            ELSE freed(alloc_page([moved.pages EXCEPT
                                      ![parent_page].cells = RemoveAt(@, separator.idx),
                                      ![parent_page].right_most_page =
                                          IF @ = right_page THEN left_page ELSE @],
                                  FreePage(NoPage)))
        merge(separator) ==
            IF ~separator.ok THEN [ok |-> FALSE, pages |-> pg]
            ELSE unlinked(separator,
                          move_cells(pg, left_page, right_page, 0, Len(pg[right_page].cells)))
    IN IF \/ ~node_open_ok(pg, left_page, leaf_type(type))
          \/ ~node_open_ok(pg, right_page, leaf_type(type))
          \/ ~node_open_ok(pg, parent_page, interior_type(type))
       THEN [ok |-> FALSE, pages |-> pg]
       ELSE merge(find_separator_index(pg[parent_page], left_page, TRUE))

\* BTree::rebalance_after_delete
RECURSIVE rebalance_after_delete(_, _, _, _, _)
rebalance_after_delete(pg, root, type, leaf_page, path) ==
    LET parent_page == path[Len(path)]
        no_borrow(p) == [ok |-> TRUE, borrowed |-> FALSE, pages |-> p]
        after_merge(merged) ==
            IF ~merged.ok THEN merged
            ELSE rebalance_after_delete(merged.pages, root, type, parent_page,
                                        SubSeq(path, 1, Len(path) - 1))
        after_left(sib, from_left) ==
            IF ~from_left.ok \/ from_left.borrowed
            THEN [ok |-> from_left.ok, pages |-> from_left.pages]
            ELSE after_merge(
                     IF sib.left # NoPage
                     THEN merge_nodes(from_left.pages, type, sib.left, leaf_page, parent_page)
                     ELSE IF sib.right # NoPage
                     THEN merge_nodes(from_left.pages, type, leaf_page, sib.right, parent_page)
                     ELSE [ok |-> FALSE, pages |-> from_left.pages])
        after_right(sib, from_right) ==
            IF ~from_right.ok \/ from_right.borrowed
            THEN [ok |-> from_right.ok, pages |-> from_right.pages]
            ELSE after_left(sib,
                            IF sib.left # NoPage
                            THEN borrow_from_sibling(from_right.pages, type, leaf_page,
                                                     sib.left, parent_page, TRUE)
                            ELSE no_borrow(from_right.pages))
        with_siblings(sib) ==
            IF ~sib.ok THEN [ok |-> FALSE, pages |-> pg]
            ELSE after_right(sib,
                             IF sib.right # NoPage
                             THEN borrow_from_sibling(pg, type, leaf_page, sib.right,
                                                      parent_page, FALSE)
                             ELSE no_borrow(pg))
    IN IF path = <<>> \/ leaf_page = root THEN [ok |-> TRUE, pages |-> pg]
       ELSE IF ~node_open_ok(pg, leaf_page, leaf_type(type)) THEN [ok |-> FALSE, pages |-> pg]
       ELSE IF Len(pg[leaf_page].cells) >= 1 THEN [ok |-> TRUE, pages |-> pg]
       ELSE IF ~node_open_ok(pg, parent_page, interior_type(type))
       THEN [ok |-> FALSE, pages |-> pg]
       ELSE with_siblings(find_siblings(pg[parent_page], leaf_page))

\* the cell at idx leaves the leaf (delete lines 540-556, delete_index 601-617)
remove_cell(pg, leaf_page, idx) ==
    [pg EXCEPT ![leaf_page].cells = RemoveAt(@, idx)]

\* BTree::delete: res is "err", "true" or "false"; removed tells whether the cell left the leaf
delete(pg, root, type, rowid) ==
    LET no(res, p, gone) == [res |-> res, pages |-> p, removed |-> gone]
        balanced(b) == no(IF b.ok THEN "true" ELSE "err", b.pages, TRUE)
        unchained(f, at, freed) ==
            IF ~freed.ok THEN no("err", freed.pages, FALSE)
            ELSE balanced(rebalance_after_delete(remove_cell(freed.pages, f.leaf, at.idx),
                                                 root, type, f.leaf, f.path))
        found(f, at, cell) ==
            unchained(f, at,
                      IF cell.overflow_page # NoPage
                      THEN free_overflow_chain(pg, cell.overflow_page)
                      ELSE [ok |-> TRUE, pages |-> pg])
        in_leaf(f, at) ==
            IF ~at.found THEN no("false", pg, FALSE)
            ELSE found(f, at, pg[f.leaf].cells[at.idx + 1])
        located(f) ==
            IF ~f.ok \/ ~node_open_ok(pg, f.leaf, "TableLeaf") THEN no("err", pg, FALSE)
            ELSE in_leaf(f, find_table_rowid(pg[f.leaf], rowid))
    IN IF type # "Table" THEN no("err", pg, FALSE)
       ELSE located(find_leaf_for_insert(pg, root, rowid))

\* BTree::delete_index
delete_index(pg, root, type, key) ==
    LET no(res, p, gone) == [res |-> res, pages |-> p, removed |-> gone]
        balanced(b) == no(IF b.ok THEN "true" ELSE "err", b.pages, TRUE)
        with_path(f, pg1, p) ==
            IF ~p.ok THEN no("err", pg1, TRUE)
            ELSE balanced(rebalance_after_delete(pg1, root, type, f.page, p.path))
        removed(f, pg1) == with_path(f, pg1, get_path_to_leaf(pg1, root, f.page, key))
        unchained(f, freed) ==
            IF ~freed.ok THEN no("err", freed.pages, FALSE)
            ELSE removed(f, remove_cell(freed.pages, f.page, f.idx))
        found(f, cell) ==
            unchained(f,
                      IF cell.overflow_page # NoPage
                      THEN free_overflow_chain(pg, cell.overflow_page)
                      ELSE [ok |-> TRUE, pages |-> pg])
        located(f) ==
            IF ~f.ok THEN no("err", pg, FALSE)
            ELSE IF ~f.found THEN no("false", pg, FALSE)
            ELSE found(f, pg[f.page].cells[f.idx + 1])
    IN IF type # "Index" THEN no("err", pg, FALSE)
       ELSE located(find_index_key(pg, root, type, key))

----------------------------------------------------------------------------
(* BTree::create and BTree::open *)

TreeTypes == {"Table", "Index"}

\* Pager::create followed by BTree::create: page 1 is the header page, the root
\* is a fresh leaf of the tree's kind
created(type) == <<HeaderPage, BTreePage(leaf_type(type), <<>>, NoPage)>>

\* create with the page type of line 110 whatever the tree type
create_table_leaf(pg, type) ==
    LET allocated(a) == [ok |-> a.ok, pages |-> a.pages, root |-> a.number]
    IN allocated(alloc_page(pg, BTreePage("TableLeaf", <<>>, NoPage)))

\* BTree::create on a pager whose pages are pg: BTreeNode::create_leaf allocates
\* the root, an empty leaf of the kind's subtype
create(pg, type) ==
    LET allocated(a) == [ok |-> a.ok, pages |-> a.pages, root |-> a.number]
    IN allocated(alloc_page(pg, BTreePage(leaf_type(type), <<>>, NoPage)))

\* open without the subtype match of lines 160-171
open_any_btree_page(pg, root, type) ==
    get_page_ok(pg, root) /\ pg[root].type \in BTreeTypes

\* BTree::open: TRUE when a handle is returned
open(pg, root, type) ==
    /\ get_page_ok(pg, root)
    /\ pg[root].type \in BTreeTypes
    /\ \/ type = "Table" /\ pg[root].type \in {"TableLeaf", "TableInterior"}
       \/ type = "Index" /\ pg[root].type \in {"IndexLeaf", "IndexInterior"}

----------------------------------------------------------------------------
(* The state machine: one handle on one pager, calls in any order *)

\* payload sizes of the records handed to insert and insert_index
RecordSize == 20
IndexRecordSize == 6

Call(op, key, res) == [op |-> op, key |-> key, res |-> res]

Init ==
    /\ tree_type \in TreeTypes
    /\ pages = created(tree_type)
    /\ root_page = 2
    /\ inserted = [k \in Keys |-> 0]
    /\ only_inserts = TRUE
    /\ last = Call("create", 0, "ok")

InsertRecord(k, P) ==
    LET returned(r) ==
            /\ pages' = r.pages
            /\ root_page' = r.root
            /\ inserted' = IF r.ok THEN [inserted EXCEPT ![k] = P] ELSE inserted
            /\ only_inserts' = (only_inserts /\ (r.ok \/ r.pages = pages))
            /\ last' = Call("insert", k, IF r.ok THEN "ok" ELSE "err")
    IN /\ inserted[k] = 0
       /\ returned(insert(pages, root_page, tree_type, k, Payload(k, P)))
       /\ UNCHANGED tree_type

Insert(k) == InsertRecord(k, RecordSize)

InsertIndex(k) ==
    LET returned(r) ==
            /\ pages' = r.pages
            /\ root_page' = r.root
            /\ inserted' = IF r.ok THEN [inserted EXCEPT ![k] = IndexRecordSize] ELSE inserted
            /\ only_inserts' = (only_inserts /\ (r.ok \/ r.pages = pages))
            /\ last' = Call("insert_index", k, IF r.ok THEN "ok" ELSE "err")
    IN /\ inserted[k] = 0
       /\ returned(insert_index(pages, root_page, tree_type, Payload(k, IndexRecordSize)))
       /\ UNCHANGED tree_type

Delete(k) ==
    LET returned(r) ==
            /\ pages' = r.pages
            /\ inserted' = IF r.removed THEN [inserted EXCEPT ![k] = 0] ELSE inserted
            /\ only_inserts' = (only_inserts /\ r.pages = pages)
            /\ last' = Call("delete", k, r.res)
    IN /\ returned(delete(pages, root_page, tree_type, k))
       /\ UNCHANGED <<root_page, tree_type>>

DeleteIndex(k) ==
    LET returned(r) ==
            /\ pages' = r.pages
            /\ inserted' = IF r.removed THEN [inserted EXCEPT ![k] = 0] ELSE inserted
            /\ only_inserts' = (only_inserts /\ r.pages = pages)
            /\ last' = Call("delete_index", k, r.res)
    IN /\ returned(delete_index(pages, root_page, tree_type, k))
       /\ UNCHANGED <<root_page, tree_type>>

\* find that walks down with root_page itself in place of the local
\* current_page (line 229)
FindFromHandle(k) ==
    /\ last' = Call("find", k, find(pages, root_page, tree_type, k).res)
    /\ root_page' = find_leaf_for_insert(pages, root_page, k).leaf
    /\ UNCHANGED <<pages, tree_type, inserted, only_inserts>>

Find(k) ==
    /\ last' = Call("find", k, find(pages, root_page, tree_type, k).res)
    /\ UNCHANGED <<pages, root_page, tree_type, inserted, only_inserts>>

FindIndexKey(k) ==
    LET returned(f) ==
            last' = Call("find_index_key", k,
                         IF ~f.ok THEN "err" ELSE IF f.found THEN "true" ELSE "false")
    IN /\ returned(find_index_key(pages, root_page, tree_type, k))
       /\ UNCHANGED <<pages, root_page, tree_type, inserted, only_inserts>>

\* BTree::open on the same pager; the handle it returns is dropped again
Open(n, type) ==
    /\ last' = Call("open_" \o type, n, IF open(pages, n, type) THEN "ok" ELSE "err")
    /\ UNCHANGED <<pages, root_page, tree_type, inserted, only_inserts>>

Next ==
    \/ \E k \in Keys : Insert(k)
    \/ \E k \in Keys : InsertIndex(k)
    \/ \E k \in Keys : Delete(k)
    \/ \E k \in Keys : DeleteIndex(k)
    \/ \E k \in Keys : Find(k)
    \/ \E k \in Keys : FindIndexKey(k)
    \/ \E n \in 0..(MaxPages + 1), type \in TreeTypes : Open(n, type)

Spec == Init /\ [][Next]_vars

----------------------------------------------------------------------------
(* A table tree whose records run from fully local to 4 * page_size bytes *)

\* payload sizes: local, one byte more than the largest local payload, and a
\* chain of three overflow pages
PayloadSizes ==
    {RecordSize, max_local_payload + 1, 4 * page_size}

InitOverflow ==
    /\ tree_type = "Table"
    /\ pages = created("Table")
    /\ root_page = 2
    /\ inserted = [k \in Keys |-> 0]
    /\ only_inserts = TRUE
    /\ last = Call("create", 0, "ok")

NextOverflow ==
    \/ \E k \in Keys, P \in PayloadSizes : InsertRecord(k, P)
    \/ \E k \in Keys : Delete(k)

SpecOverflow == InitOverflow /\ [][NextOverflow]_vars

----------------------------------------------------------------------------
(* A table tree of three levels: the rowids of 1..MaxDeepKey other than
   SpareKey inserted in ascending order, then deletions in any order and the
   insertion of SpareKey *)

MaxDeepKey == 8
MaxDeepPages == 11
SpareKey == 3

DeepKeys == 1..MaxDeepKey

\* the handle after create and insert(k) for the rowids k of 1..n, in
\* ascending order, SpareKey left out
RECURSIVE InsertedUpTo(_)
InsertedUpTo(n) ==
    LET next(t) == insert(t.pages, t.root, "Table", n, Payload(n, RecordSize))
    IN IF n = 0
       THEN [ok |-> TRUE, root |-> 2,
             pages |-> <<HeaderOf(MaxDeepPages), BTreePage("TableLeaf", <<>>, NoPage)>>]
       ELSE IF n = SpareKey THEN InsertedUpTo(n - 1)
       ELSE next(InsertedUpTo(n - 1))

InitDeep ==
    /\ tree_type = "Table"
    /\ pages = InsertedUpTo(MaxDeepKey).pages
    /\ root_page = InsertedUpTo(MaxDeepKey).root
    /\ inserted = [k \in DeepKeys |-> IF k = SpareKey THEN 0 ELSE RecordSize]
    /\ only_inserts = TRUE
    /\ last = Call("insert", MaxDeepKey, "ok")

\* the rowid left out is inserted, any rowid is deleted
NextDeep ==
    \/ Insert(SpareKey)
    \/ \E k \in DeepKeys : Delete(k)

SpecDeep == InitDeep /\ [][NextDeep]_vars

\* the same handle two inserts earlier: a root with three leaves below it
MaxWideKey == MaxDeepKey - 2

InitWide ==
    /\ tree_type = "Table"
    /\ pages = InsertedUpTo(MaxWideKey).pages
    /\ root_page = InsertedUpTo(MaxWideKey).root
    /\ inserted = [k \in DeepKeys |->
                      IF k = SpareKey \/ k > MaxWideKey THEN 0 ELSE RecordSize]
    /\ only_inserts = TRUE
    /\ last = Call("insert", MaxWideKey, "ok")

SpecWide == InitWide /\ [][NextDeep]_vars

----------------------------------------------------------------------------
(* One record that overflows, stored by a handle that was created with some
   reserved space: the cell is built and its chain is created as insert does *)

\* reserved_space 0..MaxReserved and the largest value of a u8
MaxReserved == 3
ReservedSpaces == (0..MaxReserved) \cup {255}

\* payload sizes a little above 5000 bytes and above two and three pages
MaxSlack == 9
LongPayloads == {base + d : base \in {5000, 2 * page_size, 3 * page_size}, d \in 0..MaxSlack}

InitStore ==
    /\ tree_type = "Table"
    /\ pages = created("Table")
    /\ root_page = 2
    /\ inserted = [k \in Keys |-> 0]
    /\ only_inserts = TRUE
    /\ last = Call("create", 0, "ok")

\* lines 388-410 of insert in a handle whose usable page size is U
StoreCell(reserved, P, U) ==
    LET stored(c) ==
            /\ pages' = c.pages
            /\ last' = Call("store", [reserved_space |-> reserved, payload_size |-> P],
                            [ok |-> c.ok, cell |-> c.cell])
    IN /\ last.op = "create"
       /\ stored(with_overflow(pages,
                               create_table_leaf_cell(
                                   1, Payload(1, P),
                                   factory_max_local_payload(U, max_payload_fraction),
                                   factory_min_local_payload(U, min_payload_fraction), U)))
       /\ UNCHANGED <<root_page, tree_type, inserted, only_inserts>>

NextStore ==
    last.op = "create" /\
        \E reserved \in ReservedSpaces, P \in LongPayloads :
            StoreCell(reserved, P, page_size - reserved)

SpecStore == InitStore /\ [][NextStore]_vars

----------------------------------------------------------------------------
(* Trees of one to three levels: the handle of Spec on the small file or the
   handle of SpecDeep on the larger one *)

SmallFile == pages[1].max_pages = MaxPages

InitDescent == Init \/ InitDeep

NextDescent ==
    \/ SmallFile /\ \E k \in Keys : Insert(k)
    \/ SmallFile /\ \E k \in Keys : InsertIndex(k)
    \/ SmallFile /\ \E k \in Keys : Delete(k)
    \/ SmallFile /\ \E k \in Keys : DeleteIndex(k)
    \/ ~SmallFile /\ Insert(SpareKey)
    \/ ~SmallFile /\ \E k \in DeepKeys : Delete(k)

SpecDescent == InitDescent /\ [][NextDescent]_vars

----------------------------------------------------------------------------
(* BTree::create on a pager that is fresh or already holds another tree *)

InitCreate ==
    /\ tree_type \in TreeTypes
    /\ pages \in {<<HeaderPage>>, created("Table"), created("Index")}
    /\ root_page = NoPage
    /\ inserted = [k \in Keys |-> 0]
    /\ only_inserts = TRUE
    /\ last = Call("pager", 0, "ok")

\* BTree::create(tree_type, pager, ...): the handle comes into being
Create ==
    LET returned(r) ==
            /\ pages' = r.pages
            /\ root_page' = r.root
            /\ last' = Call("create", 0, IF r.ok THEN "ok" ELSE "err")
    IN /\ root_page = NoPage
       /\ returned(create(pages, tree_type))
       /\ UNCHANGED <<tree_type, inserted, only_inserts>>

NextCreate ==
    \/ Create
    \/ root_page # NoPage /\ \E k \in Keys : Find(k)
    \/ root_page # NoPage /\ \E k \in Keys : FindIndexKey(k)
    \/ root_page # NoPage /\
           \E n \in 0..(MaxPages + 1), type \in TreeTypes : Open(n, type)

SpecCreate == InitCreate /\ [][NextCreate]_vars

----------------------------------------------------------------------------
(* BTreeCellFactory called on its own: one call of a constructor or of the
   two limits, on arguments of the caller's choice *)

\* payload lengths 0..MaxPayloadSize are all tried, longer ones by sample
MaxPayloadSize == 80
\* usable sizes 35..MaxUsableSize are all tried by the two limits
MaxUsableSize == 64

UsableSizes == {35, 40, 1000, page_size}
Fractions == {0, min_payload_fraction, 128, max_payload_fraction}

\* (max_local, min_local, usable_size) of the unit tests of cell.rs and of
\* every usable size and pair of fractions above
FactoryParams ==
    {[X |-> 200, M |-> 50, U |-> 1000], [X |-> 100, M |-> 50, U |-> 1000]} \cup
    {[X |-> factory_max_local_payload(U, fx),
      M |-> factory_min_local_payload(U, fm), U |-> U] :
        U \in UsableSizes, fx \in Fractions, fm \in Fractions}

PayloadLengths ==
    (0..MaxPayloadSize) \cup
    {100, 2000, max_local_payload, max_local_payload + 1, 4 * page_size}

CellArgs(left, key, P, t) ==
    [left |-> left, key |-> key, payload |-> Payload(key, P),
     X |-> t.X, M |-> t.M, U |-> t.U]

InitCell ==
    /\ tree_type = "Table"
    /\ pages = <<HeaderPage>>
    /\ root_page = NoPage
    /\ inserted = [k \in Keys |-> 0]
    /\ only_inserts = TRUE
    /\ last = Call("factory", 0, "ok")

TableLeafCell(rowid, P, t) ==
    /\ last.op = "factory"
    /\ last' = Call("create_table_leaf_cell", CellArgs(NoPage, rowid, P, t),
                    create_table_leaf_cell(rowid, Payload(rowid, P), t.X, t.M, t.U))
    /\ UNCHANGED <<pages, root_page, tree_type, inserted, only_inserts>>

IndexLeafCell(k, P, t) ==
    /\ last.op = "factory"
    /\ last' = Call("create_index_leaf_cell", CellArgs(NoPage, k, P, t),
                    create_index_leaf_cell(Payload(k, P), t.X, t.M, t.U))
    /\ UNCHANGED <<pages, root_page, tree_type, inserted, only_inserts>>

IndexInteriorCell(left, k, P, t) ==
    /\ last.op = "factory"
    /\ last' = Call("create_index_interior_cell", CellArgs(left, k, P, t),
                    create_index_interior_cell(left, Payload(k, P), t.X, t.M, t.U))
    /\ UNCHANGED <<pages, root_page, tree_type, inserted, only_inserts>>

LocalPayloadLimits(U, f) ==
    /\ last.op = "factory"
    /\ last' = Call("local_payload_limits", [U |-> U, f |-> f],
                    [max |-> factory_max_local_payload(U, f),
                     min |-> factory_min_local_payload(U, f)])
    /\ UNCHANGED <<pages, root_page, tree_type, inserted, only_inserts>>

NextCell ==
    \/ last.op = "factory" /\
           \E P \in PayloadLengths, t \in FactoryParams : TableLeafCell(1, P, t)
    \/ last.op = "factory" /\
           \E P \in PayloadLengths, t \in FactoryParams : IndexLeafCell(1, P, t)
    \/ last.op = "factory" /\
           \E P \in PayloadLengths, t \in FactoryParams : IndexInteriorCell(2, 1, P, t)
    \/ last.op = "factory" /\
           \E U \in (35..MaxUsableSize) \cup UsableSizes, f \in 0..255 :
               LocalPayloadLimits(U, f)

SpecCell == InitCell /\ [][NextCell]_vars

----------------------------------------------------------------------------
(* create_overflow_chain called on its own, on pagers with more or less room *)

\* the longest chain asked for, in pages
MaxChainPages == 3

\* a pager on which k - 1 table trees were created
PagerOf(k) ==
    [i \in 1..k |-> IF i = 1 THEN HeaderPage ELSE BTreePage("TableLeaf", <<>>, NoPage)]

\* lengths of the data: nothing, and around every multiple of data_per_page
ChainLengths ==
    {0} \cup {c * data_per_page + d :
                 c \in 0..(MaxChainPages - 1), d \in {1, 2, data_per_page - 1, data_per_page}}

\* the data is the tail of a payload that starts at one of these offsets
ChainOffsets == {0, min_local_payload}

\* the bytes off .. off + n of the payload of rowid 1
TailOf(off, n) == Slice(Payload(1, off + n), off, off + n)

InitChain ==
    /\ tree_type = "Table"
    /\ pages \in {PagerOf(k) : k \in 2..MaxPages}
    /\ root_page = 2
    /\ inserted = [k \in Keys |-> 0]
    /\ only_inserts = TRUE
    /\ last = Call("create", 0, "ok")

CreateChain(off, n) ==
    LET returned(r) ==
            /\ pages' = r.pages
            /\ last' = Call("create_overflow_chain", [off |-> off, n |-> n],
                            [ok |-> r.ok, head |-> r.head])
    IN /\ last.op = "create"
       /\ returned(create_overflow_chain(pages, TailOf(off, n)))
       /\ UNCHANGED <<root_page, tree_type, inserted, only_inserts>>

NextChain ==
    \E off \in ChainOffsets, n \in ChainLengths : CreateChain(off, n)

SpecChain == InitChain /\ [][NextChain]_vars

----------------------------------------------------------------------------
(* read_overflow_chain step by step, on a file whose overflow pages may be
   linked in any way (a chain, a chain into another page, a cycle) *)

\* a pager with the header, a root leaf and MaxChainPages overflow pages whose
\* next pointers are given by next
LinkedPager(next) ==
    [i \in 1..(2 + MaxChainPages) |->
        IF i = 1 THEN HeaderPage
        ELSE IF i = 2 THEN BTreePage("TableLeaf", <<>>, NoPage)
        ELSE OverflowPage(next[i], Payload(i, 1))]

LinkedPagers ==
    {LinkedPager(next) : next \in [3..(2 + MaxChainPages) -> 0..(3 + MaxChainPages)]}

\* read_overflow_chain(first_page) is entered.  Every page holds one byte; of
\* result only whether its length is odd is kept, so that the state is finite
\* on a cycle too
InitRead ==
    /\ tree_type = "Table"
    /\ pages \in LinkedPagers
    /\ root_page = 2
    /\ inserted = [k \in Keys |-> 0]
    /\ only_inserts = TRUE
    /\ last \in {Call("read_overflow_chain",
                        [current_page |-> first_page, result_odd |-> FALSE], "running") :
                    first_page \in 0..(3 + MaxChainPages)}

\* one test of `while current_page != 0` and one pass through the loop body
\* (lines 689-707)
ReadStep ==
    /\ last.op = "read_overflow_chain"
    /\ last.res = "running"
    /\ last' = IF last.key.current_page = NoPage THEN [last EXCEPT !.res = "ok"]
               ELSE IF \/ ~get_page_ok(pages, last.key.current_page)
                       \/ pages[last.key.current_page].type # "Overflow"
               THEN [last EXCEPT !.res = "err"]
               ELSE [last EXCEPT !.key =
                        [current_page |-> pages[last.key.current_page].next_page,
                         result_odd |-> ~last.key.result_odd]]
    /\ UNCHANGED <<pages, root_page, tree_type, inserted, only_inserts>>

NextRead == ReadStep

\* the thread that called read_overflow_chain keeps running
SpecRead == InitRead /\ [][NextRead]_vars /\ WF_vars(ReadStep)

----------------------------------------------------------------------------
(* Lookups in a tree that holds any choice of records: in a table tree each
   rowid of Keys absent or stored with a payload of PayloadSizes, in an index
   tree each key absent or stored *)

\* the handle after create and, for the keys k of 1..n in ascending order
\* with size[k] # 0, insert or insert_index of a record of size[k] bytes
RECURSIVE StoredUpTo(_, _, _)
StoredUpTo(type, size, n) ==
    LET returned(t, r) ==
            [pages |-> r.pages, root |-> r.root,
             inserted |-> IF r.ok THEN [t.inserted EXCEPT ![n] = size[n]] ELSE t.inserted,
             only_inserts |-> (t.only_inserts /\ (r.ok \/ r.pages = t.pages))]
        next(t) ==
            IF type = "Table"
            THEN returned(t, insert(t.pages, t.root, "Table", n, Payload(n, size[n])))
            ELSE returned(t, insert_index(t.pages, t.root, "Index", Payload(n, size[n])))
    IN IF n = 0
       THEN [pages |-> created(type), root |-> 2,
             inserted |-> [k \in Keys |-> 0], only_inserts |-> TRUE]
       ELSE IF size[n] = 0 THEN StoredUpTo(type, size, n - 1)
       ELSE next(StoredUpTo(type, size, n - 1))

\* the record sizes of a tree of the given kind
SizesOf(type) == IF type = "Table" THEN PayloadSizes ELSE {IndexRecordSize}

InitLookup ==
    \E type \in TreeTypes :
        \E size \in [Keys -> {0} \cup SizesOf(type)] :
            LET t == StoredUpTo(type, size, MaxKey)
            IN /\ tree_type = type
               /\ pages = t.pages
               /\ root_page = t.root
               /\ inserted = t.inserted
               /\ only_inserts = t.only_inserts
               /\ last = Call("open_" \o type, t.root, "ok")

NextLookup ==
    \/ \E k \in Keys : Find(k)
    \/ \E k \in Keys : FindIndexKey(k)

SpecLookup == InitLookup /\ [][NextLookup]_vars

----------------------------------------------------------------------------
(* Properties of the handle *)

\* the rowids (index keys) whose record is in the tree according to the calls made
Stored(k) == inserted[k] # 0

\* find(k) returns the record that was inserted under k, byte for byte
Findable(k) ==
    find(pages, root_page, tree_type, k) =
        [res |-> "some", payload |-> Payload(k, inserted[k])]

\* the page types of a tree of the given kind
KindOf(type) ==
    IF type = "Table" THEN {"TableLeaf", "TableInterior"}
    ELSE {"IndexLeaf", "IndexInterior"}

\* the child pointers of an interior page: each cell's left child in cell
\* order, then the rightmost child
Children(page) ==
    [i \in 1..(Len(page.cells) + 1) |->
        IF i <= Len(page.cells) THEN page.cells[i].left_child_page
        ELSE page.right_most_page]

\* the leaf pages under page n in child order; a pointer that leads to no
\* B-Tree page contributes nothing
RECURSIVE LeafOrder(_, _, _)
RECURSIVE LeafOrderOf(_, _, _)
LeafOrder(pg, n, fuel) ==
    IF ~get_page_ok(pg, n) \/ fuel = 0 THEN <<>>
    ELSE IF pg[n].type \notin BTreeTypes THEN <<>>
    ELSE IF is_leaf(pg[n].type) THEN <<n>>
    ELSE LeafOrderOf(pg, Children(pg[n]), fuel - 1)
LeafOrderOf(pg, children, fuel) ==
    IF children = <<>> THEN <<>>
    ELSE LeafOrder(pg, Head(children), fuel) \o LeafOrderOf(pg, Tail(children), fuel)

\* the keys of the cells of a sequence of leaf pages, in order
RECURSIVE KeysOfLeaves(_, _)
KeysOfLeaves(pg, leaves) ==
    IF leaves = <<>> THEN <<>>
    ELSE [i \in 1..Len(pg[Head(leaves)].cells) |->
              cell_key(pg[Head(leaves)].type, pg[Head(leaves)].cells[i])]
         \o KeysOfLeaves(pg, Tail(leaves))

\* the keys met by an in-order traversal from page n
InOrderKeys(pg, n) == KeysOfLeaves(pg, LeafOrder(pg, n, Len(pg)))

\* the set of keys stored in the leaves under page n
SubtreeKeys(pg, n) ==
    {InOrderKeys(pg, n)[i] : i \in 1..Len(InOrderKeys(pg, n))}

\* the B-Tree pages that a descent from page n can reach
RECURSIVE Reach(_, _, _)
Reach(pg, n, fuel) ==
    IF ~get_page_ok(pg, n) \/ fuel = 0 THEN {}
    ELSE IF pg[n].type \notin BTreeTypes THEN {}
    ELSE IF is_leaf(pg[n].type) THEN {n}
    ELSE {n} \cup UNION {Reach(pg, Children(pg[n])[i], fuel - 1) :
                             i \in 1..Len(Children(pg[n]))}

Reachable == Reach(pages, root_page, Len(pages))

\* C1: on a table tree, after any sequence of successful inserts of distinct
\* rowids (a split of a leaf that is not the rightmost child included),
\* find(k) returns the inserted record for every inserted rowid k.
C1_InsertedFindable ==
    (tree_type = "Table" /\ only_inserts) =>
        \A k \in Keys : Stored(k) => Findable(k)

\* C2: on a table tree, a delete(k) that returns true leaves find(k) = None and
\* leaves every other rowid that find returned before the call findable, also
\* when the delete borrows from a sibling or merges two leaves.
C2_DeleteKeepsOthers ==
    [][(tree_type = "Table" /\ last'.op = "delete" /\ last'.res = "true") =>
          /\ find(pages', root_page', tree_type', last'.key).res = "none"
          /\ \A k \in Keys \ {last'.key} :
                (Stored(k) /\ Findable(k)) =>
                    find(pages', root_page', tree_type', k) =
                        [res |-> "some", payload |-> Payload(k, inserted[k])]]_vars

\* C3: after any sequence of inserts and deletes, the in-order traversal of the
\* leaves from the root (each cell's left child in cell order, then the
\* rightmost child) meets the keys in strictly ascending order.
C3_InOrderAscending ==
    \A i \in 1..(Len(InOrderKeys(pages, root_page)) - 1) :
        InOrderKeys(pages, root_page)[i] < InOrderKeys(pages, root_page)[i + 1]

\* C4: in every interior page of a table tree the cell keys ascend, every
\* rowid under cell i's left child is <= key(i) and > key(i-1), and every
\* rowid under the rightmost child is > the last key.
C4_InteriorRanges ==
    tree_type = "Table" =>
        \A n \in Reachable :
            pages[n].type = "TableInterior" =>
                /\ \A i \in 1..(Len(pages[n].cells) - 1) :
                       pages[n].cells[i].key < pages[n].cells[i + 1].key
                /\ \A i \in 1..Len(pages[n].cells) :
                       \A x \in SubtreeKeys(pages, pages[n].cells[i].left_child_page) :
                           /\ x <= pages[n].cells[i].key
                           /\ i > 1 => x > pages[n].cells[i - 1].key
                /\ \A x \in SubtreeKeys(pages, pages[n].right_most_page) :
                       pages[n].cells # <<>> =>
                           x > pages[n].cells[Len(pages[n].cells)].key

\* C5: every leaf page that holds cells is reachable from root_page, and every
\* left-child and rightmost pointer of a reachable interior page refers to an
\* allocated B-Tree page of the tree's kind.
C5_NoOrphanNoDangling ==
    /\ \A n \in 1..Len(pages) :
           (is_leaf(pages[n].type) /\ pages[n].cells # <<>>) => n \in Reachable
    /\ \A n \in Reachable :
           ~is_leaf(pages[n].type) =>
               \A i \in 1..Len(Children(pages[n])) :
                   /\ get_page_ok(pages, Children(pages[n])[i])
                   /\ pages[Children(pages[n])[i]].type \in KindOf(tree_type)

\* C6: for a record of any payload length from 0 to 4 * page_size, a
\* successful insert(k, record) followed by find(k) returns the inserted bytes:
\* the local part followed by the overflow chain in chain order.
C6_InsertThenFind ==
    (last.op = "insert" /\ last.res = "ok") => Findable(last.key)

\* C7: on an index tree, after inserts of distinct keys (enough to split the
\* root leaf included), find_index_key returns without error, found = true for
\* every inserted key and found = false for every key never inserted.
C7_IndexFind ==
    (tree_type = "Index" /\ only_inserts) =>
        \A k \in Keys :
            /\ find_index_key(pages, root_page, tree_type, k).ok
            /\ find_index_key(pages, root_page, tree_type, k).found <=> Stored(k)

\* C8: on an index tree, delete_index of a key that is not in the tree returns
\* false; after a delete_index(key) that returns true, find_index_key(key)
\* returns found = false and every other inserted key is still found.
C8_DeleteIndex ==
    [][(tree_type = "Index" /\ last'.op = "delete_index") =>
          /\ ~Stored(last'.key) => last'.res = "false"
          /\ last'.res = "true" =>
                /\ find_index_key(pages', root_page', tree_type', last'.key).ok
                /\ ~find_index_key(pages', root_page', tree_type', last'.key).found
                /\ \A k \in Keys \ {last'.key} :
                       Stored(k) =>
                           /\ find_index_key(pages', root_page', tree_type', k).ok
                           /\ find_index_key(pages', root_page', tree_type', k).found]_vars

\* C9: find, insert and delete on an index-tree handle, and find_index_key,
\* insert_index and delete_index on a table-tree handle, return an error and
\* leave every page and the root as they were.
C9_WrongTreeType ==
    [][(\/ tree_type = "Index" /\ last'.op \in {"find", "insert", "delete"}
        \/ tree_type = "Table"
           /\ last'.op \in {"find_index_key", "insert_index", "delete_index"}) =>
          /\ last'.res = "err"
          /\ pages' = pages
          /\ root_page' = root_page]_vars

\* a table-tree call has been made on an index-tree handle whose root has split
C9_Witness ==
    /\ tree_type = "Index"
    /\ pages[root_page].type = "IndexInterior"
    /\ last.op \in {"find", "insert", "delete"}
    /\ last.res = "err"

\* C10: open(root, type) returns a handle exactly when page root is an existing
\* B-Tree page whose subtype belongs to type (TableLeaf or TableInterior for
\* Table, IndexLeaf or IndexInterior for Index); otherwise it returns an error.
C10_OpenExactly ==
    \A type \in TreeTypes :
        last.op = "open_" \o type =>
            (last.res = "ok" <=>
                /\ get_page_ok(pages, last.key)
                /\ pages[last.key].type \in KindOf(type))

\* open was called for an index tree on an interior page of a table tree
C10_Witness ==
    /\ last.op = "open_Index"
    /\ get_page_ok(pages, last.key)
    /\ pages[last.key].type = "TableInterior"
    /\ last.res = "err"

\* C11: create(type) allocates exactly one page and leaves the pages that were
\* there alone; the handle's root_page is the new page, an empty leaf of the
\* subtype of the kind (TableLeaf for Table, IndexLeaf for Index), and a lookup
\* of any key in the new tree (find on a table tree, find_index_key on an index
\* tree) finds nothing.
C11_CreateEmptyLeaf ==
    [][(last'.op = "create" /\ last'.res = "ok") =>
          /\ Len(pages') = Len(pages) + 1
          /\ SubSeq(pages', 1, Len(pages)) = pages
          /\ root_page' = Len(pages')
          /\ pages'[root_page'].type =
                 (IF tree_type' = "Table" THEN "TableLeaf" ELSE "IndexLeaf")
          /\ Len(pages'[root_page'].cells) = 0
          /\ \A k \in Keys :
                 IF tree_type' = "Table"
                 THEN find(pages', root_page', tree_type', k) =
                          [res |-> "none", payload |-> <<>>]
                 ELSE /\ find_index_key(pages', root_page', tree_type', k).ok
                      /\ ~find_index_key(pages', root_page', tree_type', k).found]_vars

\* an index tree created on a pager that already holds a table tree
C11_Witness ==
    /\ last = Call("create", 0, "ok")
    /\ tree_type = "Index"
    /\ root_page = 3
    /\ pages[2].type = "TableLeaf"

C13_DeleteReturnsTrueIff ==
    [][(tree_type = "Table" /\ last'.op = "delete") =>
          (last'.res = "true" <=> Stored(last'.key))]_vars

\* the calls of the three constructors that take a payload
CellConstructors ==
    {"create_table_leaf_cell", "create_index_leaf_cell", "create_index_interior_cell"}

\* the last call was one of them, with a payload of P bytes
CellBuilt == last.op \in CellConstructors
PayloadSize == BytesLen(last.key.payload)
LocalSize == BytesLen(last.res.cell.payload)

\* C14: a payload of at most max_local bytes is stored in the cell whole, and
\* the overflow tail that comes back with the cell is None.
C14_SmallPayloadLocal ==
    (CellBuilt /\ PayloadSize <= last.key.X) =>
        /\ last.res.cell.payload = last.key.payload
        /\ LocalSize = PayloadSize
        /\ last.res.overflow = <<>>

\* an index interior cell whose payload has exactly max_local bytes
C14_Witness ==
    /\ last.op = "create_index_interior_cell"
    /\ PayloadSize = max_local_payload
    /\ last.key.X = max_local_payload
    /\ LocalSize = max_local_payload

\* m = min(M, (U - 35) / 4) and the candidate m + ((P - m) mod (U - 4)) of the
\* last constructor call
MinLocal == Min(last.key.M, (last.key.U - 35) \div 4)
Candidate == MinLocal + ((PayloadSize - MinLocal) % (last.key.U - 4))

\* C15: a payload of more than max_local bytes keeps L bytes in the cell, where
\* L = m + ((P - m) mod (U - 4)) if that is at most max_local, and L = m if it
\* is more.
C15_LocalSizeOfLargePayload ==
    (CellBuilt /\ PayloadSize > last.key.X) =>
        LocalSize = (IF Candidate <= last.key.X THEN Candidate ELSE MinLocal)

\* C16: a payload of more than max_local bytes never stays in the cell whole:
\* the overflow tail is Some and not empty, and the cell holds at most
\* max_local bytes of it.
C16_LargePayloadOverflows ==
    (CellBuilt /\ PayloadSize > last.key.X) =>
        /\ last.res.overflow # <<>>
        /\ LocalSize <= last.key.X

\* C17: the split of a constructor loses nothing: the cell's payload is a
\* prefix of the input, the cell's payload followed by the overflow tail
\* (nothing when None) is the input, payload_size is the full length of the
\* input and not the local length, and overflow_page is None.
C17_SplitLossless ==
    CellBuilt =>
        /\ \/ last.res.cell.payload = <<>>
           \/ /\ Len(last.res.cell.payload) = 1
              /\ last.res.cell.payload[1].src = last.key.payload[1].src
              /\ last.res.cell.payload[1].lo = 0
              /\ last.res.cell.payload[1].hi <= PayloadSize
        /\ Concat(last.res.cell.payload, last.res.overflow) = last.key.payload
        /\ LocalSize + BytesLen(last.res.overflow) = PayloadSize
        /\ last.res.cell.payload_size = PayloadSize
        /\ last.res.cell.overflow_page = NoPage

\* an index leaf cell whose payload was split into a local part and a tail
C17_Witness ==
    /\ last.op = "create_index_leaf_cell"
    /\ PayloadSize = 4 * page_size
    /\ LocalSize > 0
    /\ last.res.overflow # <<>>
    /\ LocalSize < PayloadSize

\* C18: for a usable size U >= 35 and a fraction f in 0..255,
\* min_local_payload(U, f) is the floor of (U - 12) * f / 255 and
\* max_local_payload(U, f) is the smaller of that floor and U - 35;
\* max_local_payload(1000, 255) = 965, and both are 0 for the fraction 0.
C18_LocalPayloadLimits ==
    last.op = "local_payload_limits" =>
        /\ 255 * last.res.min <= (last.key.U - 12) * last.key.f
        /\ (last.key.U - 12) * last.key.f < 255 * (last.res.min + 1)
        /\ last.res.max = Min(last.res.min, last.key.U - 35)
        /\ (last.key.U = 1000 /\ last.key.f = 255) => last.res.max = 965
        /\ last.key.f = 0 => (last.res.max = 0 /\ last.res.min = 0)

\* the call whose result is the cap U - 35 and not the fraction of the page
C18_Witness ==
    /\ last.op = "local_payload_limits"
    /\ last.key.U = 1000
    /\ last.key.f = 255
    /\ last.res.max = 965
    /\ last.res.min = 988

\* the pages met from page n by following the next pointers, in order
RECURSIVE ChainFrom(_, _, _)
ChainFrom(pg, n, fuel) ==
    IF n = NoPage \/ ~get_page_ok(pg, n) \/ fuel = 0 THEN <<>>
    ELSE <<n>> \o ChainFrom(pg, pg[n].next_page, fuel - 1)

\* the chain that the last create_overflow_chain returned, in the new pager
NewChain == ChainFrom(pages', last'.res.head, Len(pages'))

\* C19: create_overflow_chain on n > 0 bytes allocates exactly
\* ceil(n / (page_size - 4)) pages, all of them overflow pages of the chain;
\* following the next pointers from the returned head visits them in the order
\* of the data, every page but the last holds exactly page_size - 4 bytes, and
\* the last page's next pointer is 0.  On empty data it returns an error and
\* allocates nothing.
C19_ChainLayout ==
    [][(last'.op = "create_overflow_chain") =>
          /\ last'.key.n = 0 => (~last'.res.ok /\ pages' = pages)
          /\ (last'.key.n > 0 /\ last'.res.ok) =>
                /\ (Len(NewChain) - 1) * (page_size - 4) < last'.key.n
                /\ last'.key.n <= Len(NewChain) * (page_size - 4)
                /\ Len(pages') = Len(pages) + Len(NewChain)
                /\ SubSeq(pages', 1, Len(pages)) = pages
                /\ {NewChain[i] : i \in 1..Len(NewChain)} = (Len(pages) + 1)..Len(pages')
                /\ \A i \in 1..Len(NewChain) :
                      /\ pages'[NewChain[i]].type = "Overflow"
                      /\ pages'[NewChain[i]].data =
                             Slice(Payload(1, last'.key.off + last'.key.n),
                                   last'.key.off + (i - 1) * (page_size - 4),
                                   IF i < Len(NewChain)
                                   THEN last'.key.off + i * (page_size - 4)
                                   ELSE last'.key.off + last'.key.n)
                      /\ i < Len(NewChain) =>
                             BytesLen(pages'[NewChain[i]].data) = page_size - 4
                /\ pages'[NewChain[Len(NewChain)]].next_page = 0]_vars

\* a chain of three pages whose last page holds two bytes
C19_Witness ==
    /\ last.op = "create_overflow_chain"
    /\ last.res.ok
    /\ last.key.n = 2 * (page_size - 4) + 2
    /\ last.key.off = min_local_payload
    /\ Len(pages) = 7
    /\ pages[last.res.head].next_page = 6
    /\ pages[6].next_page = 5
    /\ pages[5].next_page = NoPage

\* C20: when an allocation fails partway through create_overflow_chain, the
\* overflow pages it had already allocated are freed before the error is
\* returned: the failed call leaves no overflow page that was not one before.
C20_FailedChainFreed ==
    [][(last'.op = "create_overflow_chain" /\ ~last'.res.ok) =>
          \A i \in 1..Len(pages') :
              pages'[i].type = "Overflow" =>
                  (i <= Len(pages) /\ pages[i].type = "Overflow")]_vars

\* C21: read_overflow_chain returns whatever the pages hold: it follows the
\* next pointers until 0, and on pointers that form a cycle it gives up with an
\* error instead of walking the cycle for ever.
C21_ReadTerminates == <>(last.res # "running")

\* the table leaf cells that hold rowid k, and the heads of their overflow chains
LeafCellsOf(k) ==
    {c \in UNION {{pages[n].cells[i] : i \in 1..Len(pages[n].cells)} :
                     n \in {m \in 1..Len(pages) : pages[m].type = "TableLeaf"}} :
        c.key = k}
ChainHeads(k) == {c.overflow_page : c \in LeafCellsOf(k)} \ {NoPage}

\* the pages of the overflow chains of rowid k before the call
ChainPagesOf(k) ==
    UNION {{ChainFrom(pages, h, Len(pages))[j] :
               j \in 1..Len(ChainFrom(pages, h, Len(pages)))} : h \in ChainHeads(k)}

\* the pages in use that are not B-Tree pages
OverflowInUse(pg) == Cardinality({n \in 1..Len(pg) : pg[n].type = "Overflow"})

\* C22: a delete that removes a cell with an overflow chain frees the pages of
\* that chain and no other overflow page: each page of the chain is a free page
\* after the call, every other overflow page is as it was, and the number of
\* overflow pages in use has dropped by the length of the chain.
C22_DeleteFreesChain ==
    [][(last'.op = "delete" /\ last'.res = "true" /\ ChainPagesOf(last'.key) # {}) =>
          /\ \A n \in ChainPagesOf(last'.key) : pages'[n].type = "Free"
          /\ \A n \in 1..Len(pages) :
                (pages[n].type = "Overflow" /\ n \notin ChainPagesOf(last'.key)) =>
                    pages'[n] = pages[n]
          /\ OverflowInUse(pages') =
                OverflowInUse(pages) - Cardinality(ChainPagesOf(last'.key))]_vars

\* the key of the last cell of a page that holds cells
LastKey(page) == cell_key(page.type, page.cells[Len(page.cells)])

\* C23: when an insert splits the root, the handle's root_page becomes a page
\* that was allocated by the call, an interior page of the tree's kind with
\* exactly one cell; that cell's left child is the old root and its key is the
\* median (the largest key left in the old root), and the rightmost child is
\* the new right sibling, another page allocated by the call.
C23_NewRoot ==
    [][(root_page' # root_page) =>
          /\ root_page' \in (Len(pages) + 1)..Len(pages')
          /\ pages'[root_page'].type =
                 (IF tree_type = "Table" THEN "TableInterior" ELSE "IndexInterior")
          /\ Len(pages'[root_page'].cells) = 1
          /\ pages'[root_page'].cells[1].left_child_page = root_page
          /\ cell_key_ok(pages'[root_page'].type, pages'[root_page'].cells[1])
          /\ cell_key(pages'[root_page'].type, pages'[root_page'].cells[1]) =
                 LastKey(pages'[root_page])
          /\ pages'[root_page'].right_most_page \in (Len(pages) + 1)..Len(pages')
          /\ pages'[root_page'].right_most_page # root_page'
          /\ pages'[pages'[root_page'].right_most_page].type = pages[root_page].type]_vars

\* C24: the root is never an interior page without cells: a delete that leaves
\* the interior root with its rightmost child only makes that child the root.
C24_RootDemoted ==
    [][(last'.op \in {"delete", "delete_index"}) =>
          ~(/\ pages'[root_page'].type \in {"TableInterior", "IndexInterior"}
            /\ pages'[root_page'].cells = <<>>)]_vars

\* C25: every cell of an index interior page carries the key bytes of a split
\* boundary: its payload is not empty and decodes to a key of the index.
C25_IndexSeparatorCarriesKey ==
    \A n \in 1..Len(pages) :
        pages[n].type = "IndexInterior" =>
            \A i \in 1..Len(pages[n].cells) :
                /\ pages[n].cells[i].payload # <<>>
                /\ cell_key_ok("IndexInterior", pages[n].cells[i])
                /\ cell_key("IndexInterior", pages[n].cells[i]) \in Keys

\* the lookup of the tree's kind finds key k from root in the pages pg
Found(pg, root, k) ==
    IF tree_type = "Table" THEN find(pg, root, "Table", k).res = "some"
    ELSE /\ find_index_key(pg, root, "Index", k).ok
         /\ find_index_key(pg, root, "Index", k).found

\* C26: a call of insert, insert_index, delete or delete_index that returns an
\* error leaves every key that was findable before the call findable: no cell
\* has been moved or removed, and no pointer changed, by a step whose matching
\* step was not made.
C26_ErrorKeepsKeys ==
    [][(last'.op \in {"insert", "insert_index", "delete", "delete_index"}
        /\ last'.res = "err") =>
          \A k \in Keys :
              Found(pages, root_page, k) => Found(pages', root_page', k)]_vars

\* the table leaf cells of the pages pg that hold rowid k, and the number of
\* places (page, position) where the cell c stands in a table leaf
CellsOf(pg, k) ==
    {c \in UNION {{pg[n].cells[i] : i \in 1..Len(pg[n].cells)} :
                     n \in {m \in 1..Len(pg) : pg[m].type = "TableLeaf"}} :
        c.key = k}
PlacesOf(pg, c) ==
    Cardinality(UNION {{<<n, i>> : i \in {j \in 1..Len(pg[n].cells) : pg[n].cells[j] = c}} :
                          n \in {m \in 1..Len(pg) : pg[m].type = "TableLeaf"}})

\* the overflow pages that the step allocated
NewOverflowPages ==
    {n \in (Len(pages) + 1)..Len(pages') : pages'[n].type = "Overflow"}

\* the cell c points to a chain that the step allocated and that holds the
\* part of the payload of rowid k that the cell does not hold
ChainPatched(c, k) ==
    LET made(chain) ==
            /\ c.overflow_page \in NewOverflowPages
            /\ {chain[j] : j \in 1..Len(chain)} = NewOverflowPages
    IN /\ made(ChainFrom(pages', c.overflow_page, Len(pages')))
       /\ read_overflow_chain(pages', c.overflow_page) =
             [status |-> "ok",
              data |-> Slice(Payload(k, c.payload_size), BytesLen(c.payload), c.payload_size)]

\* of the cells with rowid k, before and after the step, exactly one stands in
\* one more place than before, and its overflow_page is as its payload requires
StoredOnce(k, before, after) ==
    \E c \in after :
        /\ PlacesOf(pages', c) = PlacesOf(pages, c) + 1
        /\ \A d \in (after \cup before) \ {c} : PlacesOf(pages', d) = PlacesOf(pages, d)
        /\ IF BytesLen(c.payload) < c.payload_size
           THEN ChainPatched(c, k)
           ELSE c.overflow_page = NoPage /\ NewOverflowPages = {}

\* C27: an insert that succeeds puts exactly one cell with its rowid into a
\* leaf.  If the cell holds less than the whole payload, its overflow_page is
\* the head of a chain that the call allocated for the rest of the payload; if
\* it holds the whole payload, its overflow_page is None and the call
\* allocated no overflow page.
C27_OverflowPagePatched ==
    [][(last'.op = "insert" /\ last'.res = "ok") =>
          StoredOnce(last'.key, CellsOf(pages, last'.key), CellsOf(pages', last'.key))]_vars

\* a record of 4 * page_size bytes was inserted and its cell points to a chain
C27_Witness ==
    /\ last.op = "insert"
    /\ last.res = "ok"
    /\ inserted[last.key] = 4 * page_size
    /\ \E c \in CellsOf(pages, last.key) :
           /\ c.overflow_page # NoPage
           /\ pages[c.overflow_page].type = "Overflow"
           /\ BytesLen(c.payload) < c.payload_size

\* the leaf that the insertion of key k reaches in the pages of the state
InsertLeaf(k) ==
    IF tree_type = "Table" THEN find_leaf_for_insert(pages, root_page, k).leaf
    ELSE find_index_key(pages, root_page, tree_type, k).page

\* the leaf page that the step allocated
NewLeaf ==
    CHOOSE n \in (Len(pages) + 1)..Len(pages') : is_leaf(pages'[n].type)

\* the step is an insertion whose leaf split below the root, which took the
\* separator without splitting
SplitBelowRoot ==
    /\ last'.op \in {"insert", "insert_index"}
    /\ last'.res = "ok"
    /\ root_page' = root_page
    /\ ~is_leaf(pages[root_page].type)
    /\ Len(pages') = Len(pages) + 1
    /\ is_leaf(pages'[Len(pages')].type)
    /\ Len(pages'[root_page].cells) = Len(pages[root_page].cells) + 1

\* C28: when a leaf below the root splits, the root's rightmost child becomes
\* the new right sibling only if the leaf was the rightmost child; otherwise
\* the rightmost child stays and the cell that pointed to the leaf points to
\* the new right sibling.
C28_RightmostOnlyForRightmost ==
    [][SplitBelowRoot =>
          IF pages[root_page].right_most_page = InsertLeaf(last'.key)
          THEN pages'[root_page].right_most_page = NewLeaf
          ELSE /\ pages'[root_page].right_most_page = pages[root_page].right_most_page
               /\ \A i \in 1..Len(pages[root_page].cells) :
                     pages[root_page].cells[i].left_child_page = InsertLeaf(last'.key) =>
                        \E j \in 1..Len(pages'[root_page].cells) :
                           pages'[root_page].cells[j] =
                              [pages[root_page].cells[i] EXCEPT !.left_child_page = NewLeaf]]_vars

\* a rightmost leaf that splits hands the rightmost place to its new sibling
RightmostLeafSplit ==
    [][(SplitBelowRoot /\ pages[root_page].right_most_page = InsertLeaf(last'.key)) =>
          pages'[root_page].right_most_page = NewLeaf]_vars

\* the step is a deletion that emptied a leaf below the root, and the leaf
\* holds a cell again afterwards while no page was allocated: a cell was
\* borrowed
BorrowStep ==
    /\ last'.op \in {"delete", "delete_index"}
    /\ last'.res = "true"
    /\ ~is_leaf(pages[root_page].type)
    /\ Len(pages') = Len(pages)
    /\ Len(pages[InsertLeaf(last'.key)].cells) = 1
    /\ pages'[InsertLeaf(last'.key)].cells # <<>>

\* the pages lp and rp stand side by side below the root, a cell went from the
\* one that is not the emptied leaf to the emptied leaf, and the root's cell
\* at position i separates them by the largest key of lp
BorrowedAcross(i, lp, rp, leaf) ==
    /\ leaf \in {lp, rp}
    /\ lp # rp
    /\ IF leaf = rp
       THEN /\ pages'[lp].cells = SubSeq(pages[lp].cells, 1, Len(pages[lp].cells) - 1)
            /\ pages'[rp].cells = <<pages[lp].cells[Len(pages[lp].cells)]>>
       ELSE /\ pages'[rp].cells = Tail(pages[rp].cells)
            /\ pages'[lp].cells = <<pages[rp].cells[1]>>
    /\ Len(pages'[lp].cells) >= 1
    /\ Len(pages'[rp].cells) >= 1
    /\ pages'[root_page].cells[i].left_child_page = lp
    /\ cell_key_ok(pages'[root_page].type, pages'[root_page].cells[i])
    /\ cell_key(pages'[root_page].type, pages'[root_page].cells[i]) = LastKey(pages'[lp])
    /\ Found(pages', root_page, LastKey(pages'[leaf]))

\* C29: when a deletion empties a leaf and a cell is borrowed for it, the cell
\* is the last cell of the left sibling or the first cell of the right
\* sibling, the donor keeps a cell, the root's cell between the two pages
\* carries the largest key of the left one, and the moved key is found from
\* the root.
C29_BorrowKeepsSeparator ==
    [][BorrowStep =>
          \E i \in 1..Len(pages[root_page].cells) :
              BorrowedAcross(i, Children(pages[root_page])[i],
                             Children(pages[root_page])[i + 1],
                             InsertLeaf(last'.key))]_vars

\* the same without the separator and without the search: the cell moved is
\* the donor's nearest cell and the donor keeps a cell
BorrowedCell ==
    [][BorrowStep =>
          \E i \in 1..Len(pages[root_page].cells) :
              LET lp == Children(pages[root_page])[i]
                  rp == Children(pages[root_page])[i + 1]
                  leaf == InsertLeaf(last'.key)
              IN /\ leaf \in {lp, rp}
                 /\ lp # rp
                 /\ IF leaf = rp
                    THEN /\ pages'[lp].cells = SubSeq(pages[lp].cells, 1, Len(pages[lp].cells) - 1)
                         /\ pages'[rp].cells = <<pages[lp].cells[Len(pages[lp].cells)]>>
                    ELSE /\ pages'[rp].cells = Tail(pages[rp].cells)
                         /\ pages'[lp].cells = <<pages[rp].cells[1]>>
                 /\ Len(pages'[lp].cells) >= 1
                 /\ Len(pages'[rp].cells) >= 1]_vars

\* the step is a deletion that emptied a leaf below the root and took a cell
\* out of the root: the leaf was merged with a sibling
MergeStep ==
    /\ last'.op \in {"delete", "delete_index"}
    /\ last'.res = "true"
    /\ ~is_leaf(pages[root_page].type)
    /\ Len(pages[InsertLeaf(last'.key)].cells) = 1
    /\ Len(pages'[root_page].cells) = Len(pages[root_page].cells) - 1

\* a cell without its child pointer
Unpointed(cell) == [cell EXCEPT !.left_child_page = NoPage]

\* the pages lp and rp stand at the places i and i + 1 below the root; after
\* the step the page kept holds the cells that the two pages held besides the
\* deleted one and stands alone at place i, and the cell that separated the
\* two has left the root
MergedInto(i, lp, rp, leaf, kept) ==
    /\ leaf \in {lp, rp}
    /\ lp # rp
    /\ kept \in {lp, rp}
    /\ pages'[kept].cells = IF leaf = lp THEN pages[rp].cells ELSE pages[lp].cells
    /\ Children(pages'[root_page]) =
          [j \in 1..Len(pages[root_page].cells) |->
              IF j < i THEN Children(pages[root_page])[j]
              ELSE IF j = i THEN kept
              ELSE Children(pages[root_page])[j + 1]]
    /\ \A j \in 1..Len(pages'[root_page].cells) :
          Unpointed(pages'[root_page].cells[j]) =
             Unpointed(pages[root_page].cells[IF j < i THEN j ELSE j + 1])

\* C30: when a deletion empties a leaf and the leaf is merged with a sibling,
\* the root loses the cell between the two pages, one page of the pair holds
\* the cells of both and stands in the root where the two stood, and the other
\* page of the pair is no child of the root any more and is a free page.
C30_MergeRelinksAndFrees ==
    [][MergeStep =>
          \E i \in 1..Len(pages[root_page].cells), kept \in 1..Len(pages) :
              /\ MergedInto(i, Children(pages[root_page])[i],
                            Children(pages[root_page])[i + 1],
                            InsertLeaf(last'.key), kept)
              /\ \A gone \in {Children(pages[root_page])[i],
                                Children(pages[root_page])[i + 1]} \ {kept} :
                    pages'[gone].type = "Free"]_vars

\* the same without the freeing of the page that leaves the root
MergeRelinks ==
    [][MergeStep =>
          \E i \in 1..Len(pages[root_page].cells), kept \in 1..Len(pages) :
              MergedInto(i, Children(pages[root_page])[i],
                         Children(pages[root_page])[i + 1],
                         InsertLeaf(last'.key), kept)]_vars

\* the same for an emptied leaf that is the root's rightmost child
MergeRelinksRightmost ==
    [][(MergeStep /\ pages[root_page].right_most_page = InsertLeaf(last'.key)) =>
          \E i \in 1..Len(pages[root_page].cells), kept \in 1..Len(pages) :
              MergedInto(i, Children(pages[root_page])[i],
                         Children(pages[root_page])[i + 1],
                         InsertLeaf(last'.key), kept)]_vars

\* the interior pages from the root down to the parent of the leaf that a
\* deletion of rowid k reaches in the pages of the state
PathTo(k) == find_leaf_for_insert(pages, root_page, k).path

\* the parent of that leaf
ParentOf(k) == PathTo(k)[Len(PathTo(k))]

\* the step is a deletion below an interior page that is not the root, and
\* that page lost its last cell: a merge left it underfilled
MergeBelowInner ==
    /\ last'.op = "delete"
    /\ last'.res \in {"true", "err"}
    /\ Len(PathTo(last'.key)) >= 2
    /\ Len(pages[ParentOf(last'.key)].cells) = 1
    /\ pages'[ParentOf(last'.key)].cells = <<>>

\* C31: when a merge leaves an interior page other than the root without a
\* cell, the delete completes successfully.
C31_InnerParentRebalanced ==
    [][MergeBelowInner => last'.res = "true"]_vars

\* the interior pages whose child pointers are pairwise different
InteriorPages ==
    {n \in 1..Len(pages) :
        /\ pages[n].type \in {"TableInterior", "IndexInterior"}
        /\ \A i, j \in 1..(Len(pages[n].cells) + 1) :
              Children(pages[n])[i] = Children(pages[n])[j] => i = j}

\* find_siblings gives the child at place i of the parent the children at the
\* places i - 1 and i + 1
SiblingsAt(parent, ch, i, r) ==
    /\ r.ok
    /\ r.left = (IF i = 1 THEN NoPage ELSE ch[i - 1])
    /\ r.right = (IF i = Len(ch) THEN NoPage ELSE ch[i + 1])
    /\ r.left # ch[i]
    /\ r.right # ch[i]

\* C32: for each interior page and each of its children, find_siblings
\* returns the child before it as left sibling and the child after it as
\* right sibling, None at the ends, and never the child itself.
C32_SiblingsAreNeighbours ==
    \A n \in InteriorPages :
        \A i \in 1..(Len(pages[n].cells) + 1) :
            SiblingsAt(pages[n], Children(pages[n]), i,
                       find_siblings(pages[n], Children(pages[n])[i]))

\* the left sibling that find_siblings returns is the child before
LeftSiblingIsNeighbour ==
    \A n \in InteriorPages :
        \A i \in 1..(Len(pages[n].cells) + 1) :
            /\ find_siblings(pages[n], Children(pages[n])[i]).ok
            /\ find_siblings(pages[n], Children(pages[n])[i]).left =
                  (IF i = 1 THEN NoPage ELSE Children(pages[n])[i - 1])

\* path holds the interior pages that the descent for rowid k passes, from
\* the root to the parent of leaf: it is empty exactly when the root is a
\* leaf, and each of its pages leads to the next one and the last to leaf
PathLeadsTo(path, leaf, k) ==
    /\ (path = <<>>) <=> is_leaf(pages[root_page].type)
    /\ path # <<>> => path[1] = root_page
    /\ \A i \in 1..Len(path) :
          /\ path[i] # leaf
          /\ ~is_leaf(pages[path[i]].type)
          /\ find_table_key(pages[path[i]], k) =
                (IF i < Len(path) THEN path[i + 1] ELSE leaf)

\* the descent of insert and delete ends as the descent of find does
SameDescent(k, f, w) ==
    /\ f.ok = w.ok
    /\ f.ok => (f.leaf = w.page /\ PathLeadsTo(f.path, f.leaf, k))

\* get_path_to_leaf succeeds for the leaf that find_index_key returns
PathToFound(k, x) ==
    x.ok => get_path_to_leaf(pages, root_page, x.page, k).ok

\* C33: in a table tree the descent of insert and delete reaches the leaf
\* that find reaches and returns the interior pages from the root to that
\* leaf's parent, in order, without the leaf, none exactly when the root is a
\* leaf; in an index tree get_path_to_leaf succeeds for the leaf that
\* find_index_key returns.
C33_DescentAndPath ==
    \A k \in DOMAIN inserted :
        IF tree_type = "Table"
        THEN SameDescent(k, find_leaf_for_insert(pages, root_page, k),
                         find_walk(pages, root_page, k, Len(pages)))
        ELSE PathToFound(k, find_index_key(pages, root_page, tree_type, k))

\* after a deletion a descent through the root and a second interior page
\* reaches the leaf of a rowid that find returns
C33_Witness ==
    /\ tree_type = "Table"
    /\ last.op = "delete"
    /\ \E k \in DOMAIN inserted :
          /\ find_leaf_for_insert(pages, root_page, k).ok
          /\ Len(find_leaf_for_insert(pages, root_page, k).path) = 2
          /\ find(pages, root_page, tree_type, k).res = "some"

\* every page of the chain that starts at head holds page_size - 4 bytes
ChainPagesFull(chain) ==
    /\ chain # <<>>
    /\ \A i \in 1..Len(chain) : BytesLen(pages[chain[i]].data) = page_size - 4

\* C34: when a stored payload was split, the part that went to the chain is a
\* positive multiple of the page_size - 4 bytes that create_overflow_chain
\* puts into one page, and every page of the chain is full, whatever the
\* reserved space of the handle.
C34_OverflowPagesFull ==
    (last.op = "store" /\ last.res.ok /\ last.res.cell.overflow_page # NoPage) =>
        /\ last.key.payload_size > BytesLen(last.res.cell.payload)
        /\ (last.key.payload_size - BytesLen(last.res.cell.payload)) % (page_size - 4) = 0
        /\ ChainPagesFull(ChainFrom(pages, last.res.cell.overflow_page, Len(pages)))

\* the same for a handle without reserved space
OverflowPagesFullUnreserved ==
    (last.op = "store" /\ last.key.reserved_space = 0) => C34_OverflowPagesFull

\* the depths of the leaves under page n, which is at depth d; a pointer that
\* leads to no B-Tree page contributes nothing
RECURSIVE DepthsUnder(_, _, _, _)
DepthsUnder(pg, n, d, fuel) ==
    IF ~get_page_ok(pg, n) \/ fuel = 0 THEN {}
    ELSE IF is_leaf(pg[n].type) THEN {d}
    ELSE IF pg[n].type \in {"TableInterior", "IndexInterior"}
    THEN UNION {DepthsUnder(pg, Children(pg[n])[i], d + 1, fuel - 1) :
                   i \in 1..(Len(pg[n].cells) + 1)}
    ELSE {}

LeafDepths(pg, root) == DepthsUnder(pg, root, 1, Len(pg))

\* a call that replaces the root puts every leaf one level lower, any other
\* call leaves the depths as they are
DepthsKept(before, after) ==
    after = IF root_page' # root_page THEN {d + 1 : d \in before} ELSE before

\* C35: the leaves reachable from root_page are all at one depth, and a call
\* changes that depth only by adding one level when it replaces the root.
C35_LeavesAtOneDepth ==
    /\ [](Cardinality(LeafDepths(pages, root_page)) <= 1)
    /\ [][DepthsKept(LeafDepths(pages, root_page), LeafDepths(pages', root_page'))]_vars

\* an insertion split a leaf of a tree of three levels
C35_Witness ==
    /\ last.op = "insert"
    /\ last.res = "ok"
    /\ LeafDepths(pages, root_page) = {3}
    /\ \E n \in (Len(InsertedUpTo(MaxDeepKey).pages) + 1)..Len(pages) :
          is_leaf(pages[n].type)

\* the leaves reachable from the root, other than the root, that hold no cell
EmptyLeaves(pg, root) ==
    {n \in Reach(pg, root, Len(pg)) \ {root} : is_leaf(pg[n].type) /\ pg[n].cells = <<>>}

\* C36: after a delete that returns Ok every leaf reachable from root_page,
\* other than the root itself, holds at least one cell.
C36_NoEmptyLeaf ==
    [][(last'.op \in {"delete", "delete_index"} /\ last'.res \in {"true", "false"}) =>
          EmptyLeaves(pages', root_page') = {}]_vars

\* the same for a delete on a tree that had no such leaf before
NoNewEmptyLeaf ==
    [][(/\ last'.op \in {"delete", "delete_index"}
        /\ last'.res \in {"true", "false"}
        /\ EmptyLeaves(pages, root_page) = {}) =>
          EmptyLeaves(pages', root_page') = {}]_vars

\* the number of levels between the root and the leaves reachable from it
Height(pg, root) ==
    IF LeafDepths(pg, root) = {} THEN 0
    ELSE CHOOSE d \in LeafDepths(pg, root) : \A e \in LeafDepths(pg, root) : e <= d

\* the new root was allocated by the step and stands above the old root and
\* a sibling of the old root that the step allocated as well
NewRootAbove ==
    /\ last'.res = "ok"
    /\ root_page' \in (Len(pages) + 1)..Len(pages')
    /\ pages'[root_page'].type = interior_type(tree_type)
    /\ \E i, j \in 1..(Len(pages'[root_page'].cells) + 1) :
          /\ Children(pages'[root_page'])[i] = root_page
          /\ Children(pages'[root_page'])[j] \in ((Len(pages) + 1)..Len(pages')) \ {root_page'}
          /\ pages'[Children(pages'[root_page'])[j]].type = pages[root_page].type

\* an insertion replaces the root only by a new page above the old root, and
\* then the tree is one level higher; otherwise the height stays
RootOnlyBySplit ==
    (last'.op \in {"insert", "insert_index"}) =>
        IF root_page' # root_page
        THEN NewRootAbove /\ Height(pages', root_page') = Height(pages, root_page) + 1
        ELSE Height(pages', root_page') = Height(pages, root_page)

\* the step deletes the only record of a root leaf
LastOfRootLeaf ==
    /\ last'.op = (IF tree_type = "Table" THEN "delete" ELSE "delete_index")
    /\ is_leaf(pages[root_page].type)
    /\ Len(pages[root_page].cells) = 1
    /\ cell_key_ok(pages[root_page].type, pages[root_page].cells[1])
    /\ cell_key(pages[root_page].type, pages[root_page].cells[1]) = last'.key

\* in the tree pg, key k is not found, can be inserted and is found then
InsertAndFindWork(pg, root, k) ==
    LET table_found(r) ==
            /\ r.ok
            /\ find(r.pages, r.root, "Table", k) =
                  [res |-> "some", payload |-> Payload(k, RecordSize)]
        index_found(r) ==
            /\ r.ok
            /\ find_index_key(r.pages, r.root, "Index", k).ok
            /\ find_index_key(r.pages, r.root, "Index", k).found
    IN IF tree_type = "Table"
       THEN /\ find(pg, root, "Table", k).res = "none"
            /\ table_found(insert(pg, root, "Table", k, Payload(k, RecordSize)))
       ELSE /\ find_index_key(pg, root, "Index", k).ok
            /\ ~find_index_key(pg, root, "Index", k).found
            /\ index_found(insert_index(pg, root, "Index", Payload(k, IndexRecordSize)))

\* C37: an insertion changes root_page only when the root splits, to a new
\* page above the old root, and the tree grows by one level then and keeps
\* its height otherwise; deleting the only record of a root leaf leaves
\* root_page as it is and the root an empty leaf in which every key is
\* reported absent and can be inserted and found again.
C37_RootChanges ==
    [][/\ RootOnlyBySplit
       /\ LastOfRootLeaf =>
             /\ last'.res = "true"
             /\ root_page' = root_page
             /\ is_leaf(pages'[root_page].type)
             /\ pages'[root_page].cells = <<>>
             /\ \A k \in DOMAIN inserted :
                   InsertAndFindWork(pages', root_page', k)]_vars

\* an insertion has put a new root, the last page of the file, above two pages
C37_Witness ==
    /\ last.op \in {"insert", "insert_index"}
    /\ last.res = "ok"
    /\ root_page = Len(pages)
    /\ ~is_leaf(pages[root_page].type)
    /\ Len(pages[root_page].cells) = 1
    /\ Height(pages, root_page) = 2

\* the step is a call of find or find_index_key
Lookup == last'.op \in {"find", "find_index_key"}

\* the step repeats the call before it: the same function with the same key
Repeated == last'.op = last.op /\ last'.key = last.key

====
